---- MODULE Spec2Model ----
(***************************************************************************)
(* The 'ipfs files' command handlers (core/commands/files.go) over the     *)
(* MFS tree they drive.  The handlers are translated from the source; the  *)
(* MFS library calls they make (mfs.Lookup, mfs.Mkdir, mfs.Mv,             *)
(* mfs.PutNode, mfs.FlushPath, File descriptors) are modelled from the     *)
(* design document, sections 3 to 5.                                       *)
(***************************************************************************)
EXTENDS Integers, Sequences, FiniteSets, TLC

\* ------------------------------------------------------------------ bounds
Names == {"a", "b"}
Bytes == {1, 2}          \* 0 is the zero fill of a gap
Vers == {0, 1}           \* CID versions (the hash preference)
MaxLen == 2              \* longest data argument and largest offset
MaxOps == 2              \* mutating commands per behaviour
MaxFuel == 1             \* Block Store puts before an injected store failure
NoLimit == MaxFuel + 100 \* the store does not fail

Root == <<>>
Paths == {Root} \cup {<<x>> : x \in Names} \cup {<<x, y>> : x, y \in Names}

\* ------------------------------------------------------------------- paths
Dir(p) == IF p = Root THEN Root ELSE SubSeq(p, 1, Len(p) - 1)
Base(p) == p[Len(p)]
IsPrefix(p, q) == Len(p) <= Len(q) /\ SubSeq(q, 1, Len(p)) = p
Ancestors(p) == {q \in Paths : IsPrefix(q, p) /\ q # p}
Rest(a, q) == SubSeq(q, Len(a) + 1, Len(q))

\* A path as the caller writes it is a string, held here as the sequence of
\* its separators and components; two components are always separated.
Sep == "/"
Comps(s) == SelectSeq(s, LAMBDA t : t # Sep)

RECURSIVE CleanFrom(_, _, _)
CleanFrom(cs, i, out) ==
    IF i > Len(cs) THEN out
    ELSE IF cs[i] = "." THEN CleanFrom(cs, i + 1, out)
    ELSE IF cs[i] = ".."
         THEN CleanFrom(cs, i + 1, IF out = <<>> THEN out
                                   ELSE SubSeq(out, 1, Len(out) - 1))
    ELSE CleanFrom(cs, i + 1, Append(out, cs[i]))

RECURSIVE Join(_)
Join(cs) == IF cs = <<>> THEN <<>> ELSE <<Sep, cs[1]>> \o Join(Tail(cs))

\* gopath.Clean of a rooted path: no empty, "." or ".." component is left,
\* and a ".." at the root is dropped.
CleanPath(s) ==
    LET cs == CleanFrom(Comps(s), 1, <<>>) IN IF cs = <<>> THEN <<Sep>> ELSE Join(cs)

\* checkPath(p): a trailing separator survives the cleaning.
CheckPath(p) ==
    IF Len(p) = 0 THEN [err |-> "Path", path |-> <<>>]
    ELSE IF p[1] # Sep THEN [err |-> "Path", path |-> <<>>]
    ELSE [err |-> "",
          path |-> IF p[Len(p)] = Sep /\ p # <<Sep>> THEN Append(CleanPath(p), Sep)
                   ELSE CleanPath(p)]

\* gopath.Split(s): the directory up to the last separator, the name after it.
SplitName(s) == IF s # <<>> /\ s[Len(s)] # Sep THEN <<s[Len(s)]>> ELSE <<>>
SplitDir(s) == SubSeq(s, 1, Len(s) - Len(SplitName(s)))

\* -------------------------------------------------------------- data model
NoHash == [t |-> "none", d |-> <<>>, v |-> 0, l |-> {}, m |-> <<0, 0>>]
\* new: the node was created in memory and no flush has committed it yet.
\* mode, mtime: the optional POSIX metadata, 0 when not set.
NoNode == [kind |-> "none", data |-> <<>>, ver |-> 0, dirty |-> FALSE, new |-> FALSE,
           hash |-> NoHash, mode |-> 0, mtime |-> 0]

Exists(f, p) == f[p].kind # "none"
IsDir(f, p) == f[p].kind = "dir"
IsFile(f, p) == f[p].kind = "file"
Kids(f, p) == {c \in Paths : Len(c) = Len(p) + 1 /\ IsPrefix(p, c) /\ Exists(f, c)}
Sub(f, p) == {q \in Paths : IsPrefix(p, q) /\ Exists(f, q)}

\* The encoding of a node from its in-memory content and, for a directory,
\* the link table holding the cached hash of each child.  The hash of an
\* encoding is the encoding itself (no collisions).
Enc(f, p) ==
    IF IsFile(f, p)
    THEN [t |-> "file", d |-> f[p].data, v |-> f[p].ver, l |-> {},
          m |-> <<f[p].mode, f[p].mtime>>]
    ELSE [t |-> "dir", d |-> <<>>, v |-> f[p].ver, m |-> <<f[p].mode, f[p].mtime>>,
          l |-> {<<Base(c), f[c].hash>> : c \in Kids(f, p)}]

\* The encoding the node has once its whole subtree is encoded afresh.
RECURSIVE TrueEnc(_, _)
TrueEnc(f, p) ==
    IF IsFile(f, p)
    THEN [t |-> "file", d |-> f[p].data, v |-> f[p].ver, l |-> {},
          m |-> <<f[p].mode, f[p].mtime>>]
    ELSE [t |-> "dir", d |-> <<>>, v |-> f[p].ver, m |-> <<f[p].mode, f[p].mtime>>,
          l |-> {<<Base(c), TrueEnc(f, c)>> : c \in Kids(f, p)}]

\* Every block of the DAG under a hash.
RECURSIVE Blocks(_)
Blocks(h) == {h} \cup UNION {Blocks(e[2]) : e \in h.l}

\* A mutation of node p marks it dirty and propagates the bit to the parent chain.
MarkDirty(f, p) ==
    [q \in Paths |-> IF IsPrefix(q, p) /\ Exists(f, q)
                     THEN [f[q] EXCEPT !.dirty = TRUE] ELSE f[q]]

\* ------------------------------------------------------------ path resolver
\* resolve(root, path): "" when the path resolves, else the error.
LookupErr(f, p) ==
    IF \E q \in Ancestors(p) : IsFile(f, q) THEN "NotADirectory"
    ELSE IF ~Exists(f, p) THEN "NotFound"
    ELSE ""

\* ------------------------------------------------------------- flush engine
\* The state the handlers thread through their steps: the tree, the Block
\* Store, the published root hash and the puts left before the store fails.
St(f, s, r, n) ==
    [fs |-> f, store |-> s, pub |-> r, fuel |-> n, err |-> "", errs |-> <<>>,
     gets |-> {}]

DirtySub(f, p) == {q \in Sub(f, p) : f[q].dirty}

\* Children complete before their parent is encoded.
ChildrenFirst(f, P) == \A n \in P : \A c \in Kids(f, n) : f[c].dirty => c \in P

\* The sets of dirty nodes a flush of p may have persisted when the store
\* admits n more puts: all of them, or n of them when that is not enough.
FlushSets(f, p, n) ==
    LET D == DirtySub(f, p) IN
    IF Cardinality(D) <= n THEN {D}
    ELSE {P \in SUBSET D : Cardinality(P) = n /\ ChildrenFirst(f, P)}

\* Encode, persist and commit the nodes of P that lie at one depth.
Commit(f, S) ==
    [q \in Paths |-> IF q \in S
                     THEN [f[q] EXCEPT !.hash = Enc(f, q), !.dirty = FALSE, !.new = FALSE]
                     ELSE f[q]]

RECURSIVE CommitLevelsParentFirst(_, _, _)
RECURSIVE CommitLevels(_, _, _)
\* A faulty flush: a directory is encoded before its children are.
CommitLevelsParentFirst(f, P, d) ==
    IF d < 0 THEN f
    ELSE Commit(CommitLevelsParentFirst(f, P, d - 1), {n \in P : Len(n) = d})

CommitLevels(f, P, d) ==
    IF d < 0 THEN f
    ELSE CommitLevels(Commit(f, {n \in P : Len(n) = d}), P, d - 1)

\* The ancestor's link table now points at the new hash of its child: it is
\* encoded and persisted again, and stays dirty while another child is.
Relink(f, a) ==
    [f EXCEPT ![a] = [f[a] EXCEPT !.hash = Enc(f, a), !.new = FALSE,
                                  !.dirty = \E c \in Kids(f, a) : f[c].dirty]]

RECURSIVE WalkUp(_, _, _)
WalkUp(st, p, todo) ==
    IF p = Root \/ todo = 0 THEN st
    ELSE LET a == Dir(p)
             g == Relink(st.fs, a)
         IN WalkUp([st EXCEPT !.fs = g,
                              !.store = @ \cup {g[a].hash},
                              !.pub = IF a = Root THEN g[a].hash ELSE @],
                   a, todo - 1)

\* flush of the node at p, having persisted the dirty nodes P of its subtree.
FlushWith(st, p, P) ==
    LET f == st.fs
        D == DirtySub(f, p)
        g == CommitLevels(f, P, 2)
        left == IF st.fuel = NoLimit THEN NoLimit ELSE st.fuel - Cardinality(P)
        up == Len(p)
        steps == IF left < up THEN left ELSE up
        s1 == [st EXCEPT !.fs = g,
                         !.store = @ \cup {g[q].hash : q \in P},
                         !.pub = IF Root \in P THEN g[Root].hash ELSE @,
                         !.fuel = left]
    IN IF P # D THEN [s1 EXCEPT !.err = "Store"]
       ELSE IF D = {} THEN s1
       ELSE LET s2 == WalkUp(s1, p, steps)
            IN [s2 EXCEPT !.fuel = IF left = NoLimit THEN NoLimit ELSE left - steps,
                          !.err = IF steps < up THEN "Store" ELSE ""]

\* mfs.FlushPath: every outcome of flushing path p.
FlushPath(st, p) ==
    IF LookupErr(st.fs, p) # "" THEN {[st EXCEPT !.err = LookupErr(st.fs, p)]}
    ELSE {FlushWith(st, p, P) : P \in FlushSets(st.fs, p, st.fuel)}


\* ------------------------------------------------------- library operations
Fail(st, e) == [st EXCEPT !.err = e]

Prefixes(p) == {q \in Paths : IsPrefix(q, p)}

\* A node created by mkdir or create: empty, encoded and handed to the
\* store on creation, not flushed yet (dirty), its parent marked dirty.  An absent option <<>> for
\* the CID builder inherits the preference of the parent directory.
NewNode(f, p, k, builder) ==
    LET v == IF builder = <<>> THEN f[Dir(p)].ver ELSE builder[1]
        n == [kind |-> k, data |-> <<>>, ver |-> v, dirty |-> TRUE, new |-> TRUE,
              hash |-> [t |-> k, d |-> <<>>, v |-> v, l |-> {}, m |-> <<0, 0>>],
              mode |-> 0, mtime |-> 0]
    IN MarkDirty([f EXCEPT ![p] = n], Dir(p))

AddNew(st, p, k, builder) ==
    LET g == NewNode(st.fs, p, k, builder)
    IN [st EXCEPT !.fs = g, !.store = @ \cup {g[p].hash}]

\* mfs.Mkdir without its Flush option.
RECURSIVE MkdirFrom(_, _, _, _, _)
MkdirFrom(st, p, i, mkparents, builder) ==
    LET q == SubSeq(p, 1, i) IN
    IF i < Len(p)
    THEN IF IsFile(st.fs, q) THEN Fail(st, "NotADirectory")
         ELSE IF IsDir(st.fs, q) THEN MkdirFrom(st, p, i + 1, mkparents, builder)
         ELSE IF ~mkparents THEN Fail(st, "NotFound")
         ELSE MkdirFrom(AddNew(st, q, "dir", builder), p, i + 1, mkparents, builder)
    ELSE IF IsFile(st.fs, q) THEN Fail(st, "AlreadyExists")
         ELSE IF IsDir(st.fs, q)
              THEN IF mkparents THEN st ELSE Fail(st, "AlreadyExists")
         ELSE AddNew(st, q, "dir", builder)

\* mfs.Mkdir(root, path, MkdirOpts{Mkparents, Flush, CidBuilder}).
Mkdir(st, p, mkparents, flush, builder) ==
    LET s1 == IF p # Root THEN MkdirFrom(st, p, 1, mkparents, builder)
              ELSE IF mkparents THEN st ELSE Fail(st, "AlreadyExists")
    IN IF s1.err # "" \/ ~flush THEN {s1} ELSE FlushPath(s1, p)

\* Directory.Unlink(name): detaches the entry with all below it.
Unlink(f, p) ==
    MarkDirty([q \in Paths |-> IF IsPrefix(p, q) THEN NoNode ELSE f[q]], Dir(p))

\* The subtree at a, re-rooted at b.
Fits(f, a, b) == \A q \in Sub(f, a) : b \o Rest(a, q) \in Paths

Graft(f, src, a, b) ==
    [q \in Paths |-> IF IsPrefix(b, q)
                     THEN IF a \o Rest(b, q) \in Paths THEN src[a \o Rest(b, q)]
                          ELSE NoNode
                     ELSE f[q]]

\* mfs.Mv(root, src, dst): an atomic unlink-then-insert.
MvErr(f, a, b) ==
    IF a = Root THEN "RootOperation"
    ELSE IF IsPrefix(a, b) THEN "Cycle"
    ELSE IF LookupErr(f, a) # "" THEN LookupErr(f, a)
    ELSE IF LookupErr(f, Dir(b)) # "" THEN LookupErr(f, Dir(b))
    ELSE IF IsFile(f, Dir(b)) THEN "NotADirectory"
    ELSE IF Exists(f, b) THEN "AlreadyExists"
    ELSE ""

\* A faulty move: the node moves without its descendants.
MvShallow(st, a, b) ==
    IF MvErr(st.fs, a, b) # "" THEN Fail(st, MvErr(st.fs, a, b))
    ELSE LET f == st.fs
             g == [q \in Paths |-> IF q = b THEN f[a]
                                   ELSE IF IsPrefix(a, q) THEN NoNode ELSE f[q]]
         IN [st EXCEPT !.fs = MarkDirty(MarkDirty(g, Dir(a)), Dir(b))]

Mv(st, a, b) ==
    IF MvErr(st.fs, a, b) # "" THEN Fail(st, MvErr(st.fs, a, b))
    ELSE LET f == st.fs
             g == Graft(Unlink(f, a), f, a, b)
         IN [st EXCEPT !.fs = MarkDirty(g, Dir(b))]

\* FSNode.GetNode: the node's current encoding, its blocks handed to the store.
Fresh(f, a) ==
    [q \in Paths |-> IF IsPrefix(a, q) /\ Exists(f, q)
                     THEN [f[q] EXCEPT !.hash = TrueEnc(f, q), !.dirty = FALSE, !.new = FALSE]
                     ELSE f[q]]

\* mfs.PutNode(root, path, node): attach the node at a as a new child at b.
PutNodeErr(f, b) ==
    IF b = Root THEN "AlreadyExists"
    ELSE IF LookupErr(f, Dir(b)) # "" THEN LookupErr(f, Dir(b))
    ELSE IF IsFile(f, Dir(b)) THEN "NotADirectory"
    ELSE IF Exists(f, b) THEN "AlreadyExists"
    ELSE ""

PutNode(st, src, a, b) ==
    IF PutNodeErr(st.fs, b) # "" THEN Fail(st, PutNodeErr(st.fs, b))
    ELSE LET g == Graft(st.fs, Fresh(src, a), a, b)
         IN [st EXCEPT !.fs = MarkDirty(g, Dir(b)),
                       !.store = @ \cup Blocks(TrueEnc(src, a))]

\* FileDescriptor.Write at an offset: extends the content, zero-filling a gap.
WriteAt(c, off, w) ==
    LET n == IF Len(c) > off + Len(w) THEN Len(c) ELSE off + Len(w)
    IN [i \in 1..n |-> IF i > off /\ i <= off + Len(w) THEN w[i - off]
                       ELSE IF i <= Len(c) THEN c[i] ELSE 0]

\* io.LimitReader(r, count).
Limit(w, count) ==
    IF count = <<>> \/ count[1] >= Len(w) THEN w ELSE SubSeq(w, 1, count[1])

\* ---------------------------------------------------------------- handlers
\* A faulty body: the seek is left out, so the data lands at the end of the file.
WriteBodyAppend(c, off, data, count) == WriteAt(c, Len(c), Limit(data, count))

\* A faulty body: bytes the file already holds are not overwritten.
WriteBodyFirstWins(c, off, data, count) ==
    LET w == WriteAt(c, off, Limit(data, count))
    IN [i \in 1..Len(w) |-> IF i <= Len(c) THEN c[i] ELSE w[i]]

\* The body of filesWriteCmd.Run: wfd.Seek(offset), the count limit on the
\* reader, io.Copy(wfd, r).
WriteBody(c, off, data, count) == WriteAt(c, off, Limit(data, count))

Then(e1, e2) == IF e1 # "" THEN e1 ELSE e2

\* ensureContainingDirectoryExists(r, path, builder)
EnsureContainingDirectoryExists(st, path, builder) ==
    IF Dir(path) = Root THEN st
    ELSE MkdirFrom(st, Dir(path), 1, TRUE, builder)

\* getFileHandle(r, path, create, builder)
GetFileHandle(st, path, create, builder) ==
    LET e == LookupErr(st.fs, path) IN
    IF e = "" THEN IF IsFile(st.fs, path) THEN st ELSE Fail(st, "NotAFile")
    ELSE IF e = "NotFound"
         THEN IF ~create THEN Fail(st, "NotFound")
              ELSE IF LookupErr(st.fs, Dir(path)) # ""
                   THEN Fail(st, LookupErr(st.fs, Dir(path)))
              ELSE IF ~IsDir(st.fs, Dir(path)) THEN Fail(st, "NotADirectory")
              ELSE AddNew(st, path, "file", builder)
    ELSE Fail(st, e)

\* A faulty close: the file and its parent are flushed whatever the flush
\* option says.
WriteCloseAlways(st, path, flush, bodyErr) ==
    UNION {{[r EXCEPT !.err = Then(bodyErr, Then(c.err, r.err))] :
                r \in FlushPath([c EXCEPT !.err = ""], Dir(path))} :
           c \in FlushPath(st, path)}

\* A faulty close: the flush option is not looked at, nothing is flushed.
WriteCloseUnflushed(st, path, flush, bodyErr) == {[st EXCEPT !.err = bodyErr]}

\* The deferred part of filesWriteCmd.Run: wfd.Close(), then with flush the
\* flush of the parent folder; the first error is the one returned.
WriteClose(st, path, flush, bodyErr) ==
    LET closed == IF flush THEN FlushPath(st, path) ELSE {st}
    IN UNION {IF flush
              THEN {[r EXCEPT !.err = Then(bodyErr, Then(c.err, r.err))] :
                        r \in FlushPath([c EXCEPT !.err = ""], Dir(path))}
              ELSE {[c EXCEPT !.err = Then(bodyErr, c.err)]} : c \in closed}

\* filesWriteCmd.Run
WriteCmd(st, path, off, data, create, parents, trunc, flush, count, builder) ==
    IF off < 0 THEN {Fail(st, "NegativeArgument")}
    ELSE LET s1 == IF parents THEN EnsureContainingDirectoryExists(st, path, builder)
                   ELSE st
         IN IF s1.err # "" THEN {s1}
            ELSE LET s2 == GetFileHandle(s1, path, create, builder)
                 IN IF s2.err # "" THEN {s2}
                    ELSE LET bodyErr == IF count # <<>> /\ count[1] < 0
                                        THEN "NegativeArgument" ELSE ""
                             c0 == IF trunc THEN <<>> ELSE s2.fs[path].data
                             w == Limit(data, count)
                             wrote == bodyErr = "" /\ w # <<>>
                             c1 == IF wrote THEN WriteBody(c0, off, data, count) ELSE c0
                             s3 == IF trunc \/ wrote
                                   THEN [s2 EXCEPT !.fs =
                                            MarkDirty([@ EXCEPT ![path].data = c1], path)]
                                   ELSE s2
                         IN WriteClose(s3, path, flush, bodyErr)

\* A faulty read: the count limit is applied one byte short.
ReadCmdShort(f, path, off, count) ==
    LET n == Len(f[path].data)
        e == IF LookupErr(f, path) # "" THEN LookupErr(f, path)
             ELSE IF ~IsFile(f, path) THEN "NotAFile" ELSE ""
        hi == IF count = <<>> \/ off + count[1] - 1 > n THEN n ELSE off + count[1] - 1
    IN [err |-> e, out |-> IF e = "" THEN SubSeq(f[path].data, off + 1, hi) ELSE <<>>]

\* A faulty read: an offset equal to the length of the content is refused.
ReadCmdAtEnd(f, path, off, count) ==
    LET n == Len(f[path].data)
        e == IF LookupErr(f, path) # "" THEN LookupErr(f, path)
             ELSE IF ~IsFile(f, path) THEN "NotAFile"
             ELSE IF off < 0 THEN "NegativeArgument"
             ELSE IF off >= n THEN "PastEnd"
             ELSE IF count # <<>> /\ count[1] < 0 THEN "NegativeArgument"
             ELSE ""
        hi == IF count = <<>> \/ off + count[1] > n THEN n ELSE off + count[1]
    IN [err |-> e, out |-> IF e = "" THEN SubSeq(f[path].data, off + 1, hi) ELSE <<>>]

\* filesReadCmd.Run
ReadCmd(f, path, off, count) ==
    LET n == Len(f[path].data)
        e == IF LookupErr(f, path) # "" THEN LookupErr(f, path)
             ELSE IF ~IsFile(f, path) THEN "NotAFile"
             ELSE IF off < 0 THEN "NegativeArgument"
             ELSE IF off > n THEN "PastEnd"
             ELSE IF count # <<>> /\ count[1] < 0 THEN "NegativeArgument"
             ELSE ""
        hi == IF count = <<>> \/ off + count[1] > n THEN n ELSE off + count[1]
    IN [err |-> e, out |-> IF e = "" THEN SubSeq(f[path].data, off + 1, hi) ELSE <<>>]

\* One FlushPath after another, stopping at the first error.
AndFlush(S, p) == UNION {IF s.err # "" THEN {s} ELSE FlushPath(s, p) : s \in S}

\* A faulty move: the flushes run although mfs.Mv has failed.
MvCmdFlushAnyway(st, src, dst, flush) ==
    LET s1 == Mv(st, src, dst) IN
    IF ~flush THEN {s1}
    ELSE {[r EXCEPT !.err = Then(s1.err, r.err)] :
             r \in AndFlush(FlushPath([s1 EXCEPT !.err = ""], Dir(dst)), Root)}

\* filesMvCmd.Run
MvCmd(st, src, dst, flush) ==
    LET s1 == Mv(st, src, dst) IN
    IF s1.err # "" \/ ~flush THEN {s1}
    ELSE LET d == FlushPath(s1, Dir(dst))
             e == IF Dir(src) # Dir(dst) THEN AndFlush(d, Dir(src)) ELSE d
         IN AndFlush(e, Root)

\* A faulty unlink: an existing directory is unlinked as a file is.
UnlinkNodeAnyKind(st, path) ==
    LET e == LookupErr(st.fs, Dir(path)) IN
    IF path = Root THEN st
    ELSE IF e = "NotFound" THEN st
    ELSE IF e # "" THEN Fail(st, e)
    ELSE IF ~IsDir(st.fs, Dir(path)) THEN Fail(st, "NotADirectory")
    ELSE IF ~Exists(st.fs, path) THEN st
    ELSE [st EXCEPT !.fs = Unlink(@, path)]

\* unlinkNodeIfExists(node, path)
UnlinkNodeIfExists(st, path) ==
    LET e == LookupErr(st.fs, Dir(path)) IN
    IF path = Root THEN st
    ELSE IF e = "NotFound" THEN st
    ELSE IF e # "" THEN Fail(st, e)
    ELSE IF ~IsDir(st.fs, Dir(path)) THEN Fail(st, "NotADirectory")
    ELSE IF ~Exists(st.fs, path) THEN st
    ELSE IF ~IsFile(st.fs, path) THEN Fail(st, "NotAFile")
    ELSE [st EXCEPT !.fs = Unlink(@, path)]

\* ------------------------------------------------------ objects outside MFS
\* The objects a copy can name by hash: a raw block, a directory with one
\* file below it, an object of another codec, and a dag-pb object whose data
\* is no UnixFS message.
ExtIds == {"raw", "dir", "cbor", "junk"}
ExtCodec(x) == IF x = "raw" THEN "raw" ELSE IF x = "cbor" THEN "dag-cbor" ELSE "dag-pb"
ExtUnixfs(x) == x # "junk"
ExtFs(x) ==
    LET raw == [p \in Paths |->
                  IF p = Root
                  THEN [NoNode EXCEPT !.kind = IF x = "dir" THEN "dir" ELSE "file",
                                      !.data = IF x = "dir" THEN <<>> ELSE <<1>>]
                  ELSE IF x = "dir" /\ p = <<"a">>
                       THEN [NoNode EXCEPT !.kind = "file", !.data = <<2>>]
                       ELSE NoNode]
    IN [p \in Paths |-> IF Exists(raw, p)
                        THEN [raw[p] EXCEPT !.hash = TrueEnc(raw, p)] ELSE NoNode]
ExtHash(x) ==
    IF x \in {"raw", "dir"} THEN ExtFs(x)[Root].hash
    ELSE [t |-> x, d |-> <<>>, v |-> 1, l |-> {}, m |-> <<0, 0>>]
ExtBlocks == UNION {Blocks(ExtHash(x)) : x \in {"raw", "dir"}}

\* A copy source: a path inside MFS, or /ipfs/<hash of an outside object>.
Mfs(p) == [ipfs |-> FALSE, p |-> p, x |-> ""]
Ipfs(x) == [ipfs |-> TRUE, p |-> Root, x |-> x]

\* A faulty getNodeFromPath: the whole DAG under the hash is fetched.
GetNodeFromPathDeep(st, src) ==
    IF src.ipfs
    THEN [st |-> [st EXCEPT !.gets = @ \cup Blocks(ExtHash(src.x))],
          codec |-> ExtCodec(src.x), unixfs |-> ExtUnixfs(src.x),
          fs |-> ExtFs(src.x), p |-> Root, h |-> ExtHash(src.x)]
    ELSE IF LookupErr(st.fs, src.p) # ""
    THEN [st |-> Fail(st, LookupErr(st.fs, src.p)), codec |-> "dag-pb",
          unixfs |-> TRUE, fs |-> st.fs, p |-> src.p, h |-> NoHash]
    ELSE [st |-> st, codec |-> "dag-pb", unixfs |-> TRUE, fs |-> st.fs, p |-> src.p,
          h |-> TrueEnc(st.fs, src.p)]

\* getNodeFromPath(ctx, node, api, p): one ResolveNode of the hash, or an MFS
\* lookup and GetNode.  gets: the hashes asked of the Block Store.
GetNodeFromPath(st, src) ==
    IF src.ipfs
    THEN [st |-> [st EXCEPT !.gets = @ \cup {ExtHash(src.x)}],
          codec |-> ExtCodec(src.x), unixfs |-> ExtUnixfs(src.x),
          fs |-> ExtFs(src.x), p |-> Root, h |-> ExtHash(src.x)]
    ELSE IF LookupErr(st.fs, src.p) # ""
    THEN [st |-> Fail(st, LookupErr(st.fs, src.p)), codec |-> "dag-pb",
          unixfs |-> TRUE, fs |-> st.fs, p |-> src.p, h |-> NoHash]
    ELSE [st |-> st, codec |-> "dag-pb", unixfs |-> TRUE, fs |-> st.fs, p |-> src.p,
          h |-> TrueEnc(st.fs, src.p)]

\* ------------------------------------------------------------------- stat
\* The links of a node in the order of its link table (sorted by name).
NameSeq == <<"a", "b">>
LinkSeq(h) ==
    LET ns == SelectSeq(NameSeq, LAMBDA nm : \E e \in h.l : e[1] = nm)
    IN [i \in 1..Len(ns) |-> (CHOOSE e \in h.l : e[1] = ns[i])[2]]

\* len(nd.RawData()): the header, the data and one entry per link.
RawLen(h) == 1 + Len(h.d) + Cardinality(h.l)

\* nd.Size(): the block and the cumulative size recorded in each link.
RECURSIVE CumSize(_)
CumSize(h) ==
    LET RECURSIVE Sum(_, _)
        Sum(ls, i) == IF i > Len(ls) THEN 0 ELSE CumSize(ls[i]) + Sum(ls, i + 1)
    IN RawLen(h) + Sum(LinkSeq(h), 1)

\* statNode and statProtoNode
NoStat == [hash |-> NoHash, size |-> 0, cumul |-> 0, blocks |-> 0, type |-> "",
           withLocal |-> FALSE, local |-> FALSE, sizeLocal |-> 0]
StatNodeCumul(n) ==
    IF n.codec = "raw"
    THEN [err |-> "", o |-> [NoStat EXCEPT !.hash = n.h, !.size = Len(n.h.d),
                                           !.cumul = Len(n.h.d), !.type = "file"]]
    ELSE IF n.codec # "dag-pb" \/ ~n.unixfs THEN [err |-> "InvalidContent", o |-> NoStat]
    ELSE [err |-> "",
          o |-> [NoStat EXCEPT !.hash = n.h, !.blocks = Cardinality(n.h.l),
                               !.size = CumSize(n.h),
                               !.cumul = CumSize(n.h),
                               !.type = IF n.h.t = "dir" THEN "directory" ELSE "file"]]
StatNode(n) ==
    IF n.codec = "raw"
    THEN [err |-> "", o |-> [NoStat EXCEPT !.hash = n.h, !.size = Len(n.h.d),
                                           !.cumul = Len(n.h.d), !.type = "file"]]
    ELSE IF n.codec # "dag-pb" \/ ~n.unixfs THEN [err |-> "InvalidContent", o |-> NoStat]
    ELSE [err |-> "",
          o |-> [NoStat EXCEPT !.hash = n.h, !.blocks = Cardinality(n.h.l),
                               !.size = IF n.h.t = "dir" THEN 0 ELSE Len(n.h.d),
                               !.cumul = CumSize(n.h),
                               !.type = IF n.h.t = "dir" THEN "directory" ELSE "file"]]

\* walkBlock(ctx, dagserv, nd) over the blocks L the DAG service can get: a
\* link whose block is not found clears the flag and the loop goes on.
RECURSIVE WalkBlock(_, _)
RECURSIVE WalkLinksAbort(_, _, _, _)
RECURSIVE WalkLinks(_, _, _, _)

\* A faulty walk: a block is counted once, however many links lead to it.
WalkBlockOnce(h, L) ==
    LET RECURSIVE Seen(_)
        Seen(b) == {b} \cup UNION {Seen(e[2]) : e \in {e \in b.l : e[2] \in L}}
        RECURSIVE Total(_)
        Total(S) == IF S = {} THEN 0
                    ELSE LET b == CHOOSE b \in S : TRUE IN RawLen(b) + Total(S \ {b})
    IN [local |-> Blocks(h) \subseteq L \cup {h}, size |-> Total(Seen(h))]

WalkBlock(h, L) == WalkLinks(LinkSeq(h), 1, L, [local |-> TRUE, size |-> RawLen(h)])

\* A faulty walk: it returns at the first block that is not found.
WalkLinksAbort(ls, i, L, acc) ==
    IF i > Len(ls) THEN acc
    ELSE IF ls[i] \notin L THEN [acc EXCEPT !.local = FALSE]
    ELSE LET c == WalkBlock(ls[i], L)
         IN WalkLinksAbort(ls, i + 1, L, [local |-> acc.local /\ c.local,
                                          size |-> acc.size + c.size])

WalkLinks(ls, i, L, acc) ==
    IF i > Len(ls) THEN acc
    ELSE IF ls[i] \notin L THEN WalkLinks(ls, i + 1, L, [acc EXCEPT !.local = FALSE])
    ELSE LET c == WalkBlock(ls[i], L)
         IN WalkLinks(ls, i + 1, L, [local |-> acc.local /\ c.local,
                                     size |-> acc.size + c.size])

\* The blocks the resolver asks of the Block Store on the way to the target:
\* the link of each component that resolves.
Resolved(n, f, src) ==
    IF src.ipfs THEN n.st.gets
    ELSE {TrueEnc(f, q) : q \in {q \in Paths : IsPrefix(q, src.p) /\ LookupErr(f, q) = ""}}

\* A faulty stat: the walk runs on the DAG service of the node, which fetches
\* what the local store lacks.
StatCmdOnlineWalk(st, src, withLocal) ==
    LET n == GetNodeFromPath(st, src)
        got == Resolved(n, st.fs, src)
        s1 == [n.st EXCEPT !.store = @ \cup got]
        o == StatNode(n)
        far == IF withLocal THEN Blocks(n.h) ELSE {}
        w == WalkBlock(n.h, s1.store \cup far)
    IN IF s1.err # "" THEN [st |-> s1, o |-> NoStat, fetched |-> got \ st.store]
       ELSE IF o.err # "" THEN [st |-> Fail(s1, o.err), o |-> NoStat,
                                fetched |-> got \ st.store]
       ELSE [st |-> [s1 EXCEPT !.store = @ \cup far],
             o |-> IF withLocal
                   THEN [o.o EXCEPT !.withLocal = TRUE, !.local = w.local,
                                    !.sizeLocal = w.size]
                   ELSE o.o,
             fetched |-> (got \cup far) \ st.store]

\* filesStatCmd.Run: the target is resolved through the API of the node, which
\* fetches a block the local store lacks; with withLocal the walk runs on an
\* offline DAG service over the local store.
StatCmd(st, src, withLocal) ==
    LET n == GetNodeFromPath(st, src)
        got == Resolved(n, st.fs, src)
        s1 == [n.st EXCEPT !.store = @ \cup got]
        o == StatNode(n)
        w == WalkBlock(n.h, s1.store)
    IN IF s1.err # "" THEN [st |-> s1, o |-> NoStat, fetched |-> got \ st.store]
       ELSE IF o.err # "" THEN [st |-> Fail(s1, o.err), o |-> NoStat,
                                fetched |-> got \ st.store]
       ELSE [st |-> s1,
             o |-> IF withLocal
                   THEN [o.o EXCEPT !.withLocal = TRUE, !.local = w.local,
                                    !.sizeLocal = w.size]
                   ELSE o.o,
             fetched |-> got \ st.store]

\* filesCpCmd.Run: the source is a raw block or a dag-pb node holding UnixFS.
CpValid(n) == n.codec = "raw" \/ (n.codec = "dag-pb" /\ n.unixfs)

\* filesCpCmd.Run: parents, unlink of an existing file, PutNode.
CpPut(st, n, dst, force, parents, builder) ==
    LET s1 == IF parents THEN EnsureContainingDirectoryExists(st, dst, builder) ELSE st
        s2 == IF s1.err = "" /\ force THEN UnlinkNodeIfExists(s1, dst) ELSE s1
    IN IF s2.err = "" THEN PutNode(s2, n.fs, n.p, dst) ELSE s2

\* filesCpCmd.Run: flush of the new entry, which the lookup materializes from
\* its hash, then of its parent.
CpFlush(st, dst) ==
    AndFlush(FlushPath([st EXCEPT !.gets = @ \cup {st.fs[dst].hash}], dst), Dir(dst))

\* A faulty copy: the flush of the parent folder is left out.
CpCmdNoParentFlush(st, src, dst, force, parents, flush, builder) ==
    LET n == GetNodeFromPath(st, src) IN
    IF n.st.err # "" THEN {n.st}
    ELSE IF ~CpValid(n) THEN {Fail(n.st, "InvalidContent")}
    ELSE LET s3 == CpPut(n.st, n, dst, force, parents, builder)
         IN IF s3.err # "" \/ ~flush THEN {s3} ELSE FlushPath(s3, dst)

\* A faulty copy: the source is validated after the tree has been prepared.
CpCmdLateCheck(st, src, dst, force, parents, flush, builder) ==
    LET n == GetNodeFromPath(st, src) IN
    IF n.st.err # "" THEN {n.st}
    ELSE LET s3 == CpPut(n.st, n, dst, force, parents, builder)
         IN IF ~CpValid(n) THEN {[s3 EXCEPT !.err = "InvalidContent"]}
            ELSE IF s3.err # "" \/ ~flush THEN {s3} ELSE CpFlush(s3, dst)

\* A faulty copy: an existing destination is unlinked without the force option.
CpCmdAlwaysUnlink(st, src, dst, force, parents, flush, builder) ==
    LET n == GetNodeFromPath(st, src) IN
    IF n.st.err # "" THEN {n.st}
    ELSE IF ~CpValid(n) THEN {Fail(n.st, "InvalidContent")}
    ELSE LET s3 == CpPut(n.st, n, dst, TRUE, parents, builder)
         IN IF s3.err # "" \/ ~flush THEN {s3} ELSE CpFlush(s3, dst)

\* filesCpCmd.Run
CpCmd(st, src, dst, force, parents, flush, builder) ==
    LET n == GetNodeFromPath(st, src) IN
    IF n.st.err # "" THEN {n.st}
    ELSE IF ~CpValid(n) THEN {Fail(n.st, "InvalidContent")}
    ELSE LET s3 == CpPut(n.st, n, dst, force, parents, builder)
         IN IF s3.err # "" \/ ~flush THEN {s3} ELSE CpFlush(s3, dst)

\* filesMkdirCmd.Run
MkdirCmd(st, path, dashp, flush, builder) == Mkdir(st, path, dashp, flush, builder)

\* filesFlushCmd.Run
\* Faulty flushes: one ignores its argument and flushes "/", one drops the
\* error of the flush.
FlushCmdRoot(st, path) ==
    {[r EXCEPT !.err = Then(LookupErr(st.fs, path), r.err)] : r \in FlushPath(st, Root)}
FlushCmdSwallow(st, path) == {[r EXCEPT !.err = ""] : r \in FlushPath(st, path)}
\* A faulty flush: the dirty flag of the path is cleared before the store
\* has answered.
FlushCmdEager(st, path) ==
    {IF r.err = "Store" THEN [r EXCEPT !.fs[path].dirty = FALSE] ELSE r :
        r \in FlushPath(st, path)}

FlushCmd(st, path) == FlushPath(st, path)

\* A faulty update: the preference changes and the directory is not marked
\* dirty.
UpdatePathSilent(st, path, builder) ==
    IF builder = <<>> THEN st
    ELSE IF LookupErr(st.fs, path) # "" THEN Fail(st, LookupErr(st.fs, path))
    ELSE IF ~IsDir(st.fs, path) THEN Fail(st, "NotADirectory")
    ELSE [st EXCEPT !.fs[path].ver = builder[1]]

\* A faulty update: the preference is set on a file as on a directory.
UpdatePathAnyKind(st, path, builder) ==
    IF builder = <<>> THEN st
    ELSE IF LookupErr(st.fs, path) # "" THEN Fail(st, LookupErr(st.fs, path))
    ELSE IF st.fs[path].ver = builder[1] THEN st
    ELSE [st EXCEPT !.fs = MarkDirty([@ EXCEPT ![path].ver = builder[1]], path)]

\* updatePath(rt, pth, builder)
UpdatePath(st, path, builder) ==
    IF builder = <<>> THEN st
    ELSE IF LookupErr(st.fs, path) # "" THEN Fail(st, LookupErr(st.fs, path))
    ELSE IF ~IsDir(st.fs, path) THEN Fail(st, "NotADirectory")
    ELSE IF st.fs[path].ver = builder[1] THEN st
    ELSE [st EXCEPT !.fs = MarkDirty([@ EXCEPT ![path].ver = builder[1]], path)]

\* filesChcidCmd.Run
ChcidCmd(st, path, builder, flush) ==
    LET s1 == UpdatePath(st, path, builder) IN
    IF s1.err # "" \/ ~flush THEN {s1}
    ELSE AndFlush(FlushPath(s1, path), Dir(path))

\* A faulty remove: force does not silence a missing parent directory.
RemovePathStrict(st, path, force, dashr) ==
    LET s == IF path[Len(path)] = Sep THEN SubSeq(path, 1, Len(path) - 1) ELSE path
        dir == Comps(SplitDir(s))
        name == SplitName(s)
        p == dir \o name
        e == LookupErr(st.fs, dir)
    IN IF path = <<Sep>> THEN {Fail(st, "RootOperation")}
       ELSE IF e # "" THEN {Fail(st, e)}
       ELSE IF ~IsDir(st.fs, dir) THEN {Fail(st, "NotADirectory")}
       ELSE IF name = <<>> \/ ~Exists(st.fs, p)
            THEN {IF force THEN st ELSE Fail(st, "NotFound")}
       ELSE IF ~force /\ IsDir(st.fs, p) /\ ~dashr THEN {Fail(st, "IsADirectory")}
       ELSE FlushPath([st EXCEPT !.fs = Unlink(@, p)], dir)

\* A faulty remove: a directory goes without the recursive option.
RemovePathAnyDir(st, path, force, dashr) ==
    LET s == IF path[Len(path)] = Sep THEN SubSeq(path, 1, Len(path) - 1) ELSE path
        dir == Comps(SplitDir(s))
        name == SplitName(s)
        p == dir \o name
        e == LookupErr(st.fs, dir)
    IN IF path = <<Sep>> THEN {Fail(st, "RootOperation")}
       ELSE IF e # "" THEN {IF force /\ e = "NotFound" THEN st ELSE Fail(st, e)}
       ELSE IF ~IsDir(st.fs, dir) THEN {Fail(st, "NotADirectory")}
       ELSE IF name = <<>> \/ ~Exists(st.fs, p)
            THEN {IF force THEN st ELSE Fail(st, "NotFound")}
       ELSE FlushPath([st EXCEPT !.fs = Unlink(@, p)], dir)

\* removePath(filesRoot, path, force, dashr), path as checkPath returned it
RemovePath(st, path, force, dashr) ==
    LET s == IF path[Len(path)] = Sep THEN SubSeq(path, 1, Len(path) - 1) ELSE path
        dir == Comps(SplitDir(s))
        name == SplitName(s)
        p == dir \o name
        e == LookupErr(st.fs, dir)
    IN IF path = <<Sep>> THEN {Fail(st, "RootOperation")}
       ELSE IF e # "" THEN {IF force /\ e = "NotFound" THEN st ELSE Fail(st, e)}
       ELSE IF ~IsDir(st.fs, dir) THEN {Fail(st, "NotADirectory")}
       ELSE IF name = <<>> \/ ~Exists(st.fs, p)
            THEN {IF force THEN st ELSE Fail(st, "NotFound")}
       ELSE IF ~force /\ IsDir(st.fs, p) /\ ~dashr THEN {Fail(st, "IsADirectory")}
       ELSE FlushPath([st EXCEPT !.fs = Unlink(@, p)], dir)

\* A faulty remove: the command stops at the first argument that fails.
RECURSIVE RmFromAbort(_, _, _, _, _, _)
RmFromAbort(st, args, i, force, dashr, failed) ==
    IF i > Len(args) \/ failed
    THEN {[st EXCEPT !.err = IF failed THEN "Combined" ELSE ""]}
    ELSE LET c == CheckPath(args[i])
             R == IF c.err # "" THEN {Fail(st, c.err)}
                  ELSE RemovePath(st, c.path, force, dashr)
         IN UNION {RmFromAbort([r EXCEPT !.err = "", !.errs = Append(@, r.err)], args,
                               i + 1, force, dashr, failed \/ r.err # "") : r \in R}

\* filesRmCmd.Run: every argument is tried, the failures are collected.
RECURSIVE RmFrom(_, _, _, _, _, _)
RmFrom(st, args, i, force, dashr, failed) ==
    IF i > Len(args)
    THEN {[st EXCEPT !.err = IF failed THEN "Combined" ELSE ""]}
    ELSE LET c == CheckPath(args[i])
             R == IF c.err # "" THEN {Fail(st, c.err)}
                  ELSE RemovePath(st, c.path, force, dashr)
         IN UNION {RmFrom([r EXCEPT !.err = "", !.errs = Append(@, r.err)], args,
                          i + 1, force, dashr, failed \/ r.err # "") : r \in R}

RmCmd(st, args, force, dashr) == RmFrom(st, args, 1, force, dashr, FALSE)

\* filesLsCmd.Run: without long an entry holds the name and nothing else;
\* with long the listing of the directory, or type, size and hash of the file.
NoEntry == [name |-> "", type |-> "", size |-> 0, hash |-> NoHash]
Listing(f, c) ==
    [name |-> Base(c), type |-> IF IsDir(f, c) THEN "directory" ELSE "file",
     size |-> Len(f[c].data), hash |-> TrueEnc(f, c)]
Under(f, path, S) ==
    LET ns == SelectSeq(NameSeq, LAMBDA nm : \E c \in S : c # path /\ Base(c) = nm)
    IN [i \in 1..Len(ns) |-> CHOOSE c \in S : c # path /\ Base(c) = ns[i]]

\* A faulty list: every node below the directory is listed.
LsCmdDeep(f, path, long) ==
    LET cs == Under(f, path, Sub(f, path))
    IN IF LookupErr(f, path) # "" THEN [err |-> LookupErr(f, path), out |-> <<>>]
       ELSE IF IsDir(f, path)
       THEN [err |-> "",
             out |-> [i \in 1..Len(cs) |->
                        IF long THEN Listing(f, cs[i])
                        ELSE [NoEntry EXCEPT !.name = Base(cs[i])]]]
       ELSE [err |-> "",
             out |-> <<IF long THEN Listing(f, path)
                       ELSE [NoEntry EXCEPT !.name = Base(path)]>>]

LsCmd(f, path, long) ==
    LET cs == Under(f, path, Kids(f, path))
    IN IF LookupErr(f, path) # "" THEN [err |-> LookupErr(f, path), out |-> <<>>]
       ELSE IF IsDir(f, path)
       THEN [err |-> "",
             out |-> [i \in 1..Len(cs) |->
                        IF long THEN Listing(f, cs[i])
                        ELSE [NoEntry EXCEPT !.name = Base(cs[i])]]]
       ELSE [err |-> "",
             out |-> <<IF long THEN Listing(f, path)
                       ELSE [NoEntry EXCEPT !.name = Base(path)]>>]

\* filesChmodCmd.Run and filesTouchCmd.Run after checkPath: mfs.Chmod and
\* mfs.Touch set the field of the node and mark it dirty.
ChmodCmd(st, path, mode) ==
    IF LookupErr(st.fs, path) # "" THEN Fail(st, LookupErr(st.fs, path))
    ELSE [st EXCEPT !.fs = MarkDirty([@ EXCEPT ![path].mode = mode], path)]
TouchCmd(st, path, ts) ==
    IF LookupErr(st.fs, path) # "" THEN Fail(st, LookupErr(st.fs, path))
    ELSE [st EXCEPT !.fs = MarkDirty([@ EXCEPT ![path].mtime = ts], path)]

\* The node a path string names for the resolver of the library: it walks
\* the components of the normalized path.
OfPath(s) == CleanFrom(Comps(s), 1, <<>>)

\* A handler from its first lines: checkPath on each path argument, then the
\* command on what checkPath returns.
Checked(st, raw, H(_)) ==
    IF CheckPath(raw).err # "" THEN {Fail(st, CheckPath(raw).err)}
    ELSE H(OfPath(CheckPath(raw).path))
CheckedBoth(st, r1, r2, H(_, _)) ==
    IF CheckPath(r1).err # "" THEN {Fail(st, CheckPath(r1).err)}
    ELSE IF CheckPath(r2).err # "" THEN {Fail(st, CheckPath(r2).err)}
    ELSE H(OfPath(CheckPath(r1).path), OfPath(CheckPath(r2).path))

\* ------------------------------------------------------------------- state
VARIABLES
    fs,      \* the in-memory tree: path -> node
    store,   \* the Block Store: the encodings persisted
    pub,     \* the published root hash
    ret,     \* the response of the command that ran last, until it is delivered
    nops,    \* mutating commands run so far
    track,   \* what the last commands were, for the two-command properties
    proc     \* the handlers that run concurrently, each at its own step

vars == <<fs, store, pub, ret, nops, track, proc>>

Idle == [op |-> "idle", p |-> Root, q |-> Root, off |-> 0, cnt |-> <<>>,
         flush |-> FALSE, err |-> "", out |-> <<>>, n |-> 0, chg |-> FALSE,
         args |-> <<>>, force |-> FALSE, dashr |-> FALSE, errs |-> <<>>,
         parents |-> FALSE, x |-> "", gets |-> {}, withLocal |-> FALSE, store |-> {},
         long |-> FALSE, loaded |-> <<>>, disk |-> <<>>, warning |-> FALSE]

NoTrack == [k |-> "none", p |-> Root, q |-> Root, off |-> 0, d |-> <<>>,
            c0 |-> <<>>, off1 |-> 0, d1 |-> <<>>, create |-> FALSE, cnt |-> <<>>,
            flush |-> FALSE, flushed |-> FALSE, pub0 |-> NoHash, enc0 |-> NoHash]

\* No handler is under way: the commands come one after the other.
NoProc == [mode |-> "none", path |-> Root, c0 |-> <<>>, w |-> <<>>, order |-> <<>>,
           mixed |-> FALSE, src |-> Root, dst |-> Root, mflush |-> FALSE,
           mpc |-> "none", enc0 |-> NoHash, m |-> <<>>, held |-> <<>>]

\* The trees MFS is loaded with: what the repository held at start-up.
Seeds ==
    { {},
      {<< <<"a">>, "dir", <<>> >>, << <<"a", "a">>, "file", <<1, 2>> >>,
       << <<"b">>, "file", <<2>> >>},
      {<< <<"b">>, "dir", <<>> >>, << <<"b", "a">>, "file", <<1>> >>} }

Loaded(S) ==
    LET raw == [p \in Paths |->
                  IF p = Root THEN [NoNode EXCEPT !.kind = "dir"]
                  ELSE IF \E e \in S : e[1] = p
                       THEN LET e == CHOOSE e \in S : e[1] = p
                            IN [NoNode EXCEPT !.kind = e[2], !.data = e[3]]
                       ELSE NoNode]
    IN [p \in Paths |-> IF Exists(raw, p)
                        THEN [raw[p] EXCEPT !.hash = TrueEnc(raw, p)] ELSE NoNode]

Init ==
    /\ \E S \in Seeds : fs = Loaded(S)
    /\ store = Blocks(fs[Root].hash) \cup ExtBlocks
    /\ pub = fs[Root].hash
    /\ ret = Idle
    /\ nops = 0
    /\ track = NoTrack
    /\ proc = NoProc

\* ------------------------------------------------------------------ inputs
Some(S) == {<<>>} \cup {<<x>> : x \in S}
WriteData(off, n) == [i \in 1..n |-> ((off + i) % 2) + 1]
W(o, n, c, p, t, f, k) ==
    [off |-> o, n |-> n, create |-> c, parents |-> p, trunc |-> t, flush |-> f,
     count |-> k]
WriteArgs ==
    {W(0, MaxLen, TRUE, FALSE, FALSE, FALSE, <<>>),
     W(0, MaxLen, TRUE, FALSE, FALSE, TRUE, <<>>),
     W(0, 1, FALSE, FALSE, FALSE, FALSE, <<>>),
     W(1, 1, FALSE, FALSE, FALSE, FALSE, <<>>),
     W(1, 1, FALSE, FALSE, FALSE, TRUE, <<>>),
     W(MaxLen, 1, TRUE, FALSE, FALSE, FALSE, <<>>),
     W(0, MaxLen, TRUE, TRUE, FALSE, TRUE, <<>>),
     W(0, 1, FALSE, FALSE, TRUE, FALSE, <<>>),
     W(0, MaxLen, TRUE, FALSE, FALSE, FALSE, <<1>>),
     W(0, 1, FALSE, FALSE, TRUE, TRUE, <<-1>>),
     W(-1, 1, TRUE, FALSE, FALSE, FALSE, <<>>),
     W(0, 0, TRUE, FALSE, FALSE, TRUE, <<>>)}
ReadArgs == {<<0, <<MaxLen>> >>}
CpSrc == {Mfs(p) : p \in Paths} \cup {Ipfs(x) : x \in ExtIds}
CpFits(f, src, dst) ==
    IF src.ipfs THEN ~(ExtCodec(src.x) = "dag-pb" /\ ExtUnixfs(src.x))
                     \/ Fits(ExtFs(src.x), Root, dst)
    ELSE ~Exists(f, src.p) \/ Fits(f, src.p, dst)
CpOpts ==
    {<<FALSE, FALSE, FALSE>>, <<FALSE, FALSE, TRUE>>, <<TRUE, TRUE, TRUE>>,
     <<TRUE, FALSE, FALSE>>, <<FALSE, TRUE, TRUE>>}
RmRaw ==
    {<<Sep>>, <<Sep, Sep>>, <<Sep, "a", Sep, "..", Sep>>, <<Sep, "a">>,
     <<Sep, "a", Sep>>, <<Sep, "b">>, <<Sep, ".", Sep, "b">>, <<Sep, "a", Sep, "a">>,
     <<Sep, "a", Sep, "b">>, <<Sep, "b", Sep, "a">>, <<Sep, "b", Sep, "b">>,
     <<"a">>, <<>>}
RmPair == {<<Sep, "a">>, <<Sep, "b">>, <<Sep, "a", Sep, "a">>, <<Sep, "b", Sep, "a">>}
RmArgs == {<<r>> : r \in RmRaw} \cup {<<r, t>> : r, t \in RmPair}
MkdirOpts == {<<FALSE, FALSE, <<>> >>, <<FALSE, TRUE, <<>> >>, <<TRUE, TRUE, <<>> >>,
              <<TRUE, FALSE, <<1>> >>}

Now(n) == St(fs, store, pub, n)

\* chg: the command has changed the content of the tree.
Done(r, rec, t, k) ==
    /\ fs' = r.fs
    /\ store' = r.store
    /\ pub' = r.pub
    /\ ret' = [rec EXCEPT !.chg = TrueEnc(r.fs, Root) # TrueEnc(fs, Root)]
    /\ nops' = nops + k
    /\ track' = t
    /\ proc' = proc

Ready == ret = Idle /\ nops < MaxOps

\* ----------------------------------------------------------------- actions
Write ==
    /\ Ready
    /\ \E path \in Paths, a \in WriteArgs :
       \E r \in WriteCmd(Now(NoLimit), path, a.off, WriteData(a.off, a.n), a.create,
                         a.parents, a.trunc, a.flush, a.count, <<>>) :
          LET w == Limit(WriteData(a.off, a.n), a.count)
              c0 == IF a.trunc \/ ~IsFile(fs, path) THEN <<>> ELSE fs[path].data
              first == [NoTrack EXCEPT !.k = "write", !.p = path, !.off = a.off,
                                       !.d = w, !.c0 = c0, !.create = a.create,
                                       !.cnt = a.count, !.flush = a.flush,
                                       !.pub0 = pub]
              second == [first EXCEPT !.k = "write2", !.off1 = track.off,
                                      !.d1 = track.d, !.c0 = track.c0]
          IN Done(r, [Idle EXCEPT !.op = "write", !.p = path, !.off = a.off,
                                  !.cnt = a.count, !.flush = a.flush, !.err = r.err],
                  IF r.err # "" THEN NoTrack
                  ELSE IF track.k = "write" /\ track.p = path /\ ~a.trunc THEN second
                  ELSE first, 1)

Read ==
    /\ ret = Idle
    /\ \E path \in Paths, a \in ReadArgs :
          LET r == ReadCmd(fs, path, a[1], a[2])
          IN ret' = [Idle EXCEPT !.op = "read", !.p = path, !.off = a[1],
                                 !.cnt = a[2], !.err = r.err, !.out = r.out]
    /\ UNCHANGED <<fs, store, pub, nops, track, proc>>

Move ==
    /\ Ready
    /\ \E src \in Paths, dst \in Paths, flush \in BOOLEAN :
       /\ MvErr(fs, src, dst) # "" \/ Fits(fs, src, dst)
       /\ \E r \in MvCmd(Now(NoLimit), src, dst, flush) :
          Done(r, [Idle EXCEPT !.op = "mv", !.p = src, !.q = dst, !.flush = flush,
                               !.err = r.err],
               IF r.err # "" THEN NoTrack
               ELSE IF track.k = "mv1" /\ track.p = dst /\ track.q = src
                    THEN [track EXCEPT !.k = "mv2", !.flush = flush, !.flushed = FALSE]
               ELSE [NoTrack EXCEPT !.k = "mv1", !.p = src, !.q = dst, !.pub0 = pub,
                                    !.enc0 = TrueEnc(fs, Root)], 1)

Copy ==
    /\ Ready
    /\ \E src \in CpSrc, dst \in Paths \ {Root}, o \in CpOpts :
       /\ CpFits(fs, src, dst)
       /\ \E r \in CpCmd(Now(NoLimit), src, dst, o[1], o[2], o[3], <<>>) :
          Done(r, [Idle EXCEPT !.op = "cp", !.p = src.p, !.x = src.x, !.q = dst,
                               !.force = o[1], !.parents = o[2], !.flush = o[3],
                               !.gets = r.gets, !.err = r.err], NoTrack, 1)

MakeDirectory ==
    /\ Ready
    /\ \E path \in Paths, o \in MkdirOpts :
       \E r \in MkdirCmd(Now(NoLimit), path, o[1], o[2], o[3]) :
          Done(r, [Idle EXCEPT !.op = "mkdir", !.p = path, !.flush = o[2],
                               !.err = r.err], NoTrack, 1)

\* A flush changes no content: it is no mutating command.
Flush ==
    /\ ret = Idle
    /\ \E path \in Paths, fuel \in (0..MaxFuel) \cup {NoLimit} :
       \E r \in FlushCmd(Now(fuel), path) :
          LET h == r.fs[path].hash
              n == Cardinality(DirtySub(fs, path))
          IN Done(r, [Idle EXCEPT !.op = "flush", !.p = path, !.err = r.err,
                                  !.out = IF r.err = "" THEN h ELSE NoHash, !.n = n],
                  IF track.k = "none" \/ r.err # "" THEN track
                  ELSE [track EXCEPT !.flushed = TRUE], 0)

SetHashPreference ==
    /\ Ready
    /\ \E path \in Paths, b \in Some({1}), flush \in BOOLEAN :
       \E r \in ChcidCmd(Now(NoLimit), path, b, flush) :
          Done(r, [Idle EXCEPT !.op = "chcid", !.p = path, !.flush = flush,
                               !.err = r.err], NoTrack, 1)

Remove ==
    /\ Ready
    /\ \E args \in RmArgs, force \in BOOLEAN, dashr \in BOOLEAN :
       \E r \in RmCmd(Now(NoLimit), args, force, dashr) :
          Done(r, [Idle EXCEPT !.op = "rm", !.args = args, !.force = force,
                               !.dashr = dashr, !.err = r.err, !.errs = r.errs,
                               !.n = Cardinality({p \in Paths : Exists(fs, p)})
                                     - Cardinality({p \in Paths : Exists(r.fs, p)})],
               NoTrack, 1)

\* The response is delivered to the caller.
Respond ==
    /\ ret # Idle
    /\ ret' = Idle
    /\ UNCHANGED <<fs, store, pub, nops, track, proc>>

Next ==
    \/ Write
    \/ Read
    \/ Move
    \/ Copy
    \/ MakeDirectory
    \/ Flush
    \/ SetHashPreference
    \/ Remove
    \/ Respond

Spec == Init /\ [][Next]_vars

\* ------------------------------------------------------ concurrent callers
\* Two write commands on one file, or a move, run step by step while other
\* callers look at the tree and flush it.
ConcWrites == {[off |-> o, n |-> n, flush |-> f] :
                  o \in 0..(MaxLen - 1), n \in 1..MaxLen, f \in BOOLEAN}
Writer(i, a) == [pc |-> "start", off |-> a.off, d |-> [k \in 1..a.n |-> i],
                 flush |-> a.flush]

ConcInit ==
    /\ \E S \in Seeds : fs = Loaded(S)
    /\ store = Blocks(fs[Root].hash) \cup ExtBlocks
    /\ pub = fs[Root].hash
    /\ ret = Idle
    /\ nops = 0
    /\ track = NoTrack
    /\ \/ \E path \in {p \in Paths : IsFile(fs, p)}, a, b \in ConcWrites :
             proc = [NoProc EXCEPT !.mode = "write", !.path = path,
                                   !.c0 = fs[path].data,
                                   !.w = <<Writer(1, a), Writer(2, b)>>]
       \/ \E src \in Paths, dst \in Paths, f \in BOOLEAN :
             /\ MvErr(fs, src, dst) # "" \/ Fits(fs, src, dst)
             /\ proc = [NoProc EXCEPT !.mode = "move", !.src = src, !.dst = dst,
                                      !.mflush = f, !.mpc = "start",
                                      !.enc0 = TrueEnc(fs, src)]

ConcDone(r, pr) ==
    /\ fs' = r.fs
    /\ store' = r.store
    /\ pub' = r.pub
    /\ proc' = pr
    /\ UNCHANGED <<ret, nops, track>>

\* filesWriteCmd.Run up to fi.Open: the file handle and a descriptor of its own.
ConcOpen ==
    \E i \in 1..2 :
       /\ proc.mode = "write" /\ proc.w[i].pc = "start"
       /\ LET r == GetFileHandle(Now(NoLimit), proc.path, FALSE, <<>>)
          IN ConcDone(r, [proc EXCEPT !.w[i].pc = IF r.err = "" THEN "open" ELSE "closed"])

\* wfd.Seek and io.Copy: the data is committed at the descriptor's offset.
ConcBody ==
    \E i \in 1..2 :
       /\ proc.mode = "write" /\ proc.w[i].pc = "open"
       /\ LET c == WriteBody(fs[proc.path].data, proc.w[i].off, proc.w[i].d, <<>>)
              g == MarkDirty([fs EXCEPT ![proc.path].data = c], proc.path)
          IN ConcDone([Now(NoLimit) EXCEPT !.fs = g],
                      [proc EXCEPT !.w[i].pc = "written", !.order = Append(@, i),
                                   !.mixed = @ \/ proc.w[3 - i].pc \in {"open", "written"}])

\* The deferred wfd.Close and flush of the parent.
ConcClose ==
    \E i \in 1..2 :
       /\ proc.mode = "write" /\ proc.w[i].pc = "written"
       /\ \E r \in WriteClose(Now(NoLimit), proc.path, proc.w[i].flush, "") :
             ConcDone(r, [proc EXCEPT !.w[i].pc = "closed"])

\* A faulty move: the entry is put at dst and the one at src is left.
ConcMvCopy ==
    /\ proc.mode = "move" /\ proc.mpc = "start"
    /\ LET r == IF MvErr(fs, proc.src, proc.dst) # "" THEN Mv(Now(NoLimit), proc.src, proc.dst)
                ELSE PutNode(Now(NoLimit), fs, proc.src, proc.dst)
       IN ConcDone(r, [proc EXCEPT !.mpc = IF r.err # "" THEN "failed"
                                           ELSE IF proc.mflush THEN "moved" ELSE "done"])

\* filesMvCmd.Run: mfs.Mv, then with flush the three flushes in turn.
ConcMv ==
    /\ proc.mode = "move" /\ proc.mpc = "start"
    /\ LET r == Mv(Now(NoLimit), proc.src, proc.dst)
       IN ConcDone(r, [proc EXCEPT !.mpc = IF r.err # "" THEN "failed"
                                           ELSE IF proc.mflush THEN "moved" ELSE "done"])

ConcMvFlushDst ==
    /\ proc.mode = "move" /\ proc.mpc = "moved"
    /\ \E r \in FlushPath(Now(NoLimit), Dir(proc.dst)) :
          ConcDone(r, [proc EXCEPT !.mpc = IF Dir(proc.src) # Dir(proc.dst)
                                          THEN "dst" ELSE "src"])

ConcMvFlushSrc ==
    /\ proc.mode = "move" /\ proc.mpc = "dst"
    /\ \E r \in FlushPath(Now(NoLimit), Dir(proc.src)) :
          ConcDone(r, [proc EXCEPT !.mpc = "src"])

ConcMvFlushRoot ==
    /\ proc.mode = "move" /\ proc.mpc = "src"
    /\ \E r \in FlushPath(Now(NoLimit), Root) :
          ConcDone(r, [proc EXCEPT !.mpc = "done"])

\* Another caller resolves a path (stat, ls, read) while the handlers run;
\* x: the step the move was at when it looked.
ConcObserve ==
    /\ \E path \in Paths :
          ret' = [Idle EXCEPT !.op = "stat", !.p = path, !.err = LookupErr(fs, path),
                              !.x = proc.mpc,
                              !.out = IF LookupErr(fs, path) = ""
                                      THEN TrueEnc(fs, path) ELSE NoHash]
    /\ UNCHANGED <<fs, store, pub, nops, track, proc>>

\* Another caller runs the flush command while the handlers run.
ConcFlush ==
    \E path \in Paths : \E r \in FlushCmd(Now(NoLimit), path) :
       /\ r.fs # fs \/ r.pub # pub
       /\ ConcDone(r, proc)

ConcNext ==
    \/ ConcOpen
    \/ ConcBody
    \/ ConcClose
    \/ ConcMv
    \/ ConcMvFlushDst
    \/ ConcMvFlushSrc
    \/ ConcMvFlushRoot
    \/ ConcObserve
    \/ ConcFlush

SpecConc == ConcInit /\ [][ConcNext]_vars

\* ------------------------------------------------------- concurrent moves
\* Two move commands run at once. Each directory is a lockable unit; a move
\* holds the locks of the parent of src and of the parent of dst while
\* mfs.Mv changes the two link tables.
LockDirs == {Dir(p) : p \in Paths \ {Root}}
DirRank(d) == IF d = Root THEN 0 ELSE IF d[1] = "a" THEN Len(d) ELSE Len(d) + MaxLen

\* A faulty order: the parent of src first, whatever the two directories are.
LockOrderSrcFirst(a, b) == IF a = b THEN <<a>> ELSE <<a, b>>

\* The order in which a move takes the locks of its two directories.
LockOrder(a, b) ==
    IF a = b THEN <<a>> ELSE IF DirRank(a) < DirRank(b) THEN <<a, b>> ELSE <<b, a>>

LockSeeds ==
    { {<< <<"a">>, "dir", <<>> >>, << <<"a", "a">>, "file", <<1>> >>,
       << <<"b">>, "dir", <<>> >>, << <<"b", "b">>, "file", <<2>> >>},
      {<< <<"a">>, "dir", <<>> >>, << <<"a", "a">>, "file", <<1>> >>,
       << <<"a", "b">>, "file", <<2>> >>, << <<"b">>, "dir", <<>> >>} }
LockMoves == {<<s, d>> : s, d \in {p \in Paths : Len(p) = 2}}
Mover(sd, f) == [src |-> sd[1], dst |-> sd[2], flush |-> f, pc |-> "start", got |-> 0]
Locks(mv) == LockOrder(Dir(mv.src), Dir(mv.dst))
Finished(mv) == mv.pc \in {"done", "failed"}
\* The move is waiting for a lock that move i holds.
Waits(mv, i) ==
    /\ mv.pc = "start" /\ mv.got < Len(Locks(mv))
    /\ proc.held[Locks(mv)[mv.got + 1]] = i

LockInit ==
    /\ \E S \in LockSeeds : fs = Loaded(S)
    /\ store = Blocks(fs[Root].hash) \cup ExtBlocks
    /\ pub = fs[Root].hash
    /\ ret = Idle
    /\ nops = 0
    /\ track = NoTrack
    /\ \E x, y \in LockMoves, f \in BOOLEAN :
          proc = [NoProc EXCEPT !.mode = "locks",
                                !.m = <<Mover(x, f), Mover(y, FALSE)>>,
                                !.held = [d \in LockDirs |-> 0]]

\* The move takes the next lock of its order; it waits while another holds it.
MvLockOf(i) ==
    LET mv == proc.m[i]
        ls == Locks(mv)
        d == ls[mv.got + 1]
    IN /\ proc.mode = "locks" /\ mv.pc = "start" /\ mv.got < Len(ls)
       /\ proc.held[d] = 0
       /\ proc' = [proc EXCEPT !.held[d] = i, !.m[i].got = @ + 1]
       /\ UNCHANGED <<fs, store, pub, ret, nops, track>>

\* filesMvCmd.Run: mfs.Mv under the locks of both directories, which it then
\* gives back.
MvLockedOf(i) ==
    LET mv == proc.m[i]
        r == Mv(Now(NoLimit), mv.src, mv.dst)
    IN /\ proc.mode = "locks" /\ mv.pc = "start" /\ mv.got = Len(Locks(mv))
       /\ ConcDone(r, [proc EXCEPT
                         !.held = [d \in LockDirs |-> IF proc.held[d] = i THEN 0
                                                      ELSE proc.held[d]],
                         !.mixed = @ \/ Waits(proc.m[3 - i], i),
                         !.m[i].pc = IF r.err # "" THEN "failed"
                                     ELSE IF mv.flush THEN "moved" ELSE "done"])

\* filesMvCmd.Run with flush: the parent of dst, the parent of src, the root.
MvFlushOf(i) ==
    LET mv == proc.m[i]
        d == FlushPath(Now(NoLimit), Dir(mv.dst))
        s == IF Dir(mv.src) # Dir(mv.dst) THEN AndFlush(d, Dir(mv.src)) ELSE d
    IN /\ proc.mode = "locks" /\ mv.pc = "moved"
       /\ \E r \in AndFlush(s, Root) : ConcDone(r, [proc EXCEPT !.m[i].pc = "done"])

MvLock == \E i \in 1..2 : MvLockOf(i)
MvLocked == \E i \in 1..2 : MvLockedOf(i)
MvFlush == \E i \in 1..2 : MvFlushOf(i)

LockNext ==
    \/ MvLock
    \/ MvLocked
    \/ MvFlush

\* Each handler runs in a goroutine of its own: one that can take a step is
\* scheduled in the end.
SpecLock ==
    /\ LockInit
    /\ [][LockNext]_vars
    /\ \A i \in 1..2 :
          WF_vars(MvLockOf(i)) /\ WF_vars(MvLockedOf(i)) /\ WF_vars(MvFlushOf(i))

\* ------------------------------------------------------------------ reads
\* The read command on its own: every offset and count on every content.
Contents == UNION {[1..n -> Bytes] : n \in 0..MaxLen}
ReadSeeds ==
    {{<< <<"a">>, "dir", <<>> >>, << <<"a", "a">>, "file", c >>, << <<"b">>, "file", d >>} :
        c, d \in Contents}
ReadOffsets == -1..(MaxLen + 1)
ReadCounts == Some(-1..(MaxLen + 1))

ReadInit ==
    /\ \E S \in ReadSeeds : fs = Loaded(S)
    /\ store = Blocks(fs[Root].hash) \cup ExtBlocks
    /\ pub = fs[Root].hash
    /\ ret = Idle
    /\ nops = 0
    /\ track = NoTrack
    /\ proc = NoProc

ReadAny ==
    /\ ret = Idle
    /\ \E path \in Paths, off \in ReadOffsets, count \in ReadCounts :
          LET r == ReadCmd(fs, path, off, count)
          IN ret' = [Idle EXCEPT !.op = "read", !.p = path, !.off = off,
                                 !.cnt = count, !.err = r.err, !.out = r.out]
    /\ UNCHANGED <<fs, store, pub, nops, track, proc>>

ReadNext ==
    \/ ReadAny
    \/ Respond

SpecRead == ReadInit /\ [][ReadNext]_vars

\* ------------------------------------------------------------------- stat
\* The stat command on a tree as loaded, over a local store that lacks some
\* of the blocks: those are to be had from the network only.
StatSeeds ==
    Seeds \cup {{<< <<"a">>, "dir", <<>> >>, << <<"a", "a">>, "file", <<1>> >>,
                 << <<"a", "b">>, "file", <<1, 2>> >>, << <<"b">>, "file", <<2>> >>},
                {<< <<"a">>, "dir", <<>> >>, << <<"a", "a">>, "file", <<1>> >>,
                 << <<"b">>, "dir", <<>> >>, << <<"b", "a">>, "file", <<1>> >>,
                 << <<"b", "b">>, "file", <<1>> >>}}
Known(f) == Blocks(f[Root].hash) \cup ExtBlocks \cup {ExtHash(x) : x \in ExtIds}

StatInit ==
    /\ \E S \in StatSeeds : fs = Loaded(S)
    /\ \E M \in SUBSET (Known(fs) \ {fs[Root].hash}) : store = Known(fs) \ M
    /\ pub = fs[Root].hash
    /\ ret = Idle
    /\ nops = 0
    /\ track = NoTrack
    /\ proc = NoProc

\* store: the local store the command found.
Stat ==
    /\ ret = Idle
    /\ \E src \in CpSrc, withLocal \in BOOLEAN :
          LET r == StatCmd(Now(NoLimit), src, withLocal)
          IN /\ store' = r.st.store
             /\ ret' = [Idle EXCEPT !.op = "stat", !.p = src.p, !.x = src.x,
                                    !.withLocal = withLocal, !.err = r.st.err,
                                    !.out = r.o, !.gets = r.fetched, !.store = store]
    /\ UNCHANGED <<fs, pub, nops, track, proc>>

StatNext ==
    \/ Stat
    \/ Respond

SpecStat == StatInit /\ [][StatNext]_vars

\* ----------------------------------------------------- commands by path
\* Every command of the files API as a caller gives it: the path arguments
\* are the strings of the request.
PathIn ==
    {<<>>, <<"a">>, <<"b", Sep, "a">>, <<Sep>>, <<Sep, "a">>, <<Sep, "b">>,
     <<Sep, "a", Sep, "a">>, <<Sep, "b", Sep, ".", Sep, "a">>}
PathTo == {<<"b">>, <<Sep, "b">>, <<Sep, "a", Sep, "b">>}

PathReady == ret = Idle /\ nops < MaxOps
Sent(op, args) == [Idle EXCEPT !.op = op, !.args = args]

PathWrite ==
    /\ PathReady
    /\ \E raw \in PathIn, n \in 1..MaxLen :
       \E r \in Checked(Now(NoLimit), raw,
                        LAMBDA p : WriteCmd(Now(NoLimit), p, 0, WriteData(0, n), TRUE,
                                            FALSE, FALSE, TRUE, <<>>, <<>>)) :
          LET p == OfPath(raw)
          IN Done(r, [Sent("write", <<raw>>) EXCEPT !.err = r.err, !.flush = TRUE],
                  IF r.err = "" /\ track.k = "mkdir" /\ track.p = Dir(p) /\ p # Root
                  THEN [NoTrack EXCEPT !.k = "mkwrite", !.p = p, !.d = WriteData(0, n),
                                       !.c0 = IF IsFile(fs, p) THEN fs[p].data ELSE <<>>]
                  ELSE NoTrack, 1)

PathRead ==
    /\ ret = Idle
    /\ \E raw \in PathIn :
          LET c == CheckPath(raw)
              r == IF c.err # "" THEN [err |-> c.err, out |-> <<>>]
                   ELSE ReadCmd(fs, OfPath(c.path), 0, <<MaxLen>>)
          IN ret' = [Sent("read", <<raw>>) EXCEPT !.err = r.err, !.out = r.out]
    /\ UNCHANGED <<fs, store, pub, nops, track, proc>>

PathMove ==
    /\ PathReady
    /\ \E r1 \in PathIn, r2 \in PathTo :
       /\ MvErr(fs, OfPath(r1), OfPath(r2)) # "" \/ Fits(fs, OfPath(r1), OfPath(r2))
       /\ \E r \in CheckedBoth(Now(NoLimit), r1, r2,
                                LAMBDA a, b : MvCmd(Now(NoLimit), a, b, TRUE)) :
             Done(r, [Sent("mv", <<r1, r2>>) EXCEPT !.err = r.err], NoTrack, 1)

PathCopy ==
    /\ PathReady
    /\ \E r1 \in PathIn, r2 \in PathTo :
       /\ CpFits(fs, Mfs(OfPath(r1)), OfPath(r2))
       /\ \E r \in CheckedBoth(Now(NoLimit), r1, r2,
                                LAMBDA a, b : CpCmd(Now(NoLimit), Mfs(a), b, FALSE, FALSE,
                                                    TRUE, <<>>)) :
             Done(r, [Sent("cp", <<r1, r2>>) EXCEPT !.err = r.err], NoTrack, 1)

PathList ==
    /\ ret = Idle
    /\ \E raw \in PathIn, long \in BOOLEAN :
          LET c == CheckPath(raw)
              r == IF c.err # "" THEN [err |-> c.err, out |-> <<>>]
                   ELSE LsCmd(fs, OfPath(c.path), long)
          IN ret' = [Sent("ls", <<raw>>) EXCEPT !.err = r.err, !.out = r.out,
                                               !.long = long]
    /\ UNCHANGED <<fs, store, pub, nops, track, proc>>

PathMkdir ==
    /\ PathReady
    /\ \E raw \in PathIn :
       \E r \in Checked(Now(NoLimit), raw,
                        LAMBDA p : MkdirCmd(Now(NoLimit), p, TRUE, TRUE, <<>>)) :
          Done(r, [Sent("mkdir", <<raw>>) EXCEPT !.err = r.err, !.parents = TRUE],
               IF r.err = "" THEN [NoTrack EXCEPT !.k = "mkdir", !.p = OfPath(raw)]
               ELSE NoTrack, 1)

PathStat ==
    /\ ret = Idle
    /\ \E raw \in PathIn :
          LET c == CheckPath(raw)
              r == StatCmd(Now(NoLimit), Mfs(OfPath(c.path)), FALSE)
          IN ret' = [Sent("stat", <<raw>>) EXCEPT
                        !.err = IF c.err # "" THEN c.err ELSE r.st.err,
                        !.out = IF c.err # "" THEN NoStat ELSE r.o]
    /\ UNCHANGED <<fs, store, pub, nops, track, proc>>

PathRemove ==
    /\ PathReady
    /\ \E raw \in PathIn :
       \E r \in RmCmd(Now(NoLimit), <<raw>>, FALSE, TRUE) :
          Done(r, [Sent("rm", <<raw>>) EXCEPT !.err = r.err, !.errs = r.errs, !.dashr = TRUE],
               NoTrack, 1)

\* filesFlushCmd.Run and filesChcidCmd.Run hand the argument to the library
\* as it came.
PathFlush ==
    /\ ret = Idle
    /\ \E raw \in PathIn :
       \E r \in FlushCmd(Now(NoLimit), OfPath(raw)) :
          Done(r, [Sent("flush", <<raw>>) EXCEPT !.err = r.err], track, 0)

PathChcid ==
    /\ PathReady
    /\ \E raw \in PathIn, b \in Some(Vers), flush \in BOOLEAN :
       \E r \in ChcidCmd(Now(NoLimit), OfPath(raw), b, flush) :
          Done(r, [Sent("chcid", <<raw>>) EXCEPT !.err = r.err, !.cnt = b,
                                                !.flush = flush], NoTrack, 1)

PathChmod ==
    /\ PathReady
    /\ \E raw \in PathIn :
       \E r \in Checked(Now(NoLimit), raw, LAMBDA p : {ChmodCmd(Now(NoLimit), p, 1)}) :
          Done(r, [Sent("chmod", <<raw>>) EXCEPT !.err = r.err], NoTrack, 1)

PathTouch ==
    /\ PathReady
    /\ \E raw \in PathIn :
       \E r \in Checked(Now(NoLimit), raw, LAMBDA p : {TouchCmd(Now(NoLimit), p, 1)}) :
          Done(r, [Sent("touch", <<raw>>) EXCEPT !.err = r.err], NoTrack, 1)

PathNext ==
    \/ PathWrite
    \/ PathRead
    \/ PathMove
    \/ PathCopy
    \/ PathList
    \/ PathMkdir
    \/ PathStat
    \/ PathRemove
    \/ PathFlush
    \/ PathChcid
    \/ PathChmod
    \/ PathTouch
    \/ Respond

SpecPath == Init /\ [][PathNext]_vars

\* ------------------------------------------------- the drive's virtual FS
\* A node of the virtual file system.  A folder has no cid and no timestamp
\* and a file no children: the record keeps every field, empty where the
\* object of the code has none.
VfsFolder(name) ==
    [name |-> name, type |-> "folder", cid |-> "", timestamp |-> 0, children |-> <<>>]
VfsFile(name, cid, timestamp) ==
    [name |-> name, type |-> "file", cid |-> cid, timestamp |-> timestamp,
     children |-> <<>>]
createVirtualFs == VfsFolder(Sep)

\* children.find(test): the position of the first child that passes, 0 if none.
Find(children, Test(_)) ==
    LET S == {k \in 1..Len(children) : Test(children[k])}
    IN IF S = {} THEN 0 ELSE CHOOSE k \in S : \A j \in S : k <= j

\* findNode: <<node>> when every part names a child, <<>> for null.
RECURSIVE FindFrom(_, _, _)
FindFrom(parts, i, current) ==
    IF i > Len(parts) THEN <<current>>
    ELSE IF current.type # "folder" THEN <<>>
    ELSE LET k == Find(current.children, LAMBDA child : child.name = parts[i])
         IN IF k = 0 THEN <<>> ELSE FindFrom(parts, i + 1, current.children[k])
findNode(path, root) == FindFrom(Comps(path), 1, root)

\* addFolder: walks the parts, creating each folder that is not there; a child
\* of the same name that is a file does not count as there.
RECURSIVE AddFolderFrom(_, _, _)
AddFolderFrom(current, parts, i) ==
    IF i > Len(parts) \/ current.type # "folder" THEN current
    ELSE LET k == Find(current.children,
                       LAMBDA child : child.name = parts[i] /\ child.type = "folder")
         IN IF k = 0
            THEN [current EXCEPT !.children =
                      Append(@, AddFolderFrom(VfsFolder(parts[i]), parts, i + 1))]
            ELSE [current EXCEPT !.children[k] = AddFolderFrom(@, parts, i + 1)]
addFolder(root, path) == AddFolderFrom(root, Comps(path), 1)

\* addFile: pushes the file onto the children of the folder findNode gives
\* for the parts before the last; nothing happens without such a folder.
RECURSIVE PushFile(_, _, _, _)
PushFile(current, parts, i, file) ==
    IF current.type # "folder" THEN current
    ELSE IF i > Len(parts) THEN [current EXCEPT !.children = Append(@, file)]
    ELSE LET k == Find(current.children, LAMBDA child : child.name = parts[i])
         IN IF k = 0 THEN current
            ELSE [current EXCEPT !.children[k] = PushFile(@, parts, i + 1, file)]
addFile(root, path, cid, now) ==
    LET parts == Comps(path)
    IN IF parts = <<>> THEN root
       ELSE PushFile(root, SubSeq(parts, 1, Len(parts) - 1), 1,
                     VfsFile(parts[Len(parts)], cid, now))

\* The text of virtualFs.json.  A JSON object is the tuple of its values, the
\* children an array of such tuples; Truncated stands for a text that is no
\* JSON and EmptyObject for the text {}.
Truncated == <<"{">>
EmptyObject == <<"", "", "", 0, <<>> >>
IsJson(text) == Len(text) = 5
RECURSIVE Stringify(_)
Stringify(node) ==
    <<node.name, node.type, node.cid, node.timestamp,
      [k \in 1..Len(node.children) |-> Stringify(node.children[k])]>>
RECURSIVE Parse(_)
Parse(text) ==
    [name |-> text[1], type |-> text[2], cid |-> text[3], timestamp |-> text[4],
     children |-> [k \in 1..Len(text[5]) |-> Parse(text[5][k])]]

\* The file on disk, and what a load gives: threw for the exception of
\* JSON.parse, disk for the file the call leaves behind.
NoFile == [exists |-> FALSE, text |-> <<>>]
File(text) == [exists |-> TRUE, text |-> text]
loadVirtualFsFromDisk(disk) ==
    IF ~disk.exists THEN [threw |-> FALSE, vfs |-> createVirtualFs, disk |-> disk]
    ELSE IF ~IsJson(disk.text) THEN [threw |-> TRUE, vfs |-> createVirtualFs, disk |-> disk]
    ELSE [threw |-> FALSE, vfs |-> Parse(disk.text), disk |-> disk]
saveVirtualFsToDisk(vfs) == File(Stringify(vfs))

\* The three callers, each from its load to its save: the result gives the
\* load, the file left on disk and whether the caller saw an exception.
VfsRun(disk, Edit(_), saves) ==
    LET l == loadVirtualFsFromDisk(disk)
    IN [loaded |-> l, threw |-> l.threw,
        disk |-> IF l.threw \/ ~saves THEN l.disk
                 ELSE saveVirtualFsToDisk(Edit(l.vfs))]
Documents == "Documents"
Projects == "Projects"
manageVirtualFs(disk, now) ==
    VfsRun(disk,
           LAMBDA vfs :
               addFile(addFile(addFolder(vfs, <<Sep, Documents, Sep, Projects>>),
                               <<Sep, Documents, Sep, Projects, Sep, "demo.js">>,
                               "QmNewCID1", now),
                       <<Sep, Documents, Sep, "readme.txt">>, "QmNewCID2", now),
           TRUE)
AddFolderRoute(disk, path) == VfsRun(disk, LAMBDA vfs : addFolder(vfs, path), FALSE)
\* A faulty update: the file is added to a new tree, not to the loaded one,
\* so the save drops what other requests have saved.
AddFileRouteFresh(disk, name, cid, now) ==
    VfsRun(disk, LAMBDA vfs : addFile(createVirtualFs, <<Sep, name>>, cid, now), TRUE)

AddFileRoute(disk, name, cid, now) ==
    VfsRun(disk, LAMBDA vfs : addFile(vfs, <<Sep, name>>, cid, now), TRUE)

\* The files the drive may find at its start, the paths and the uploads of
\* the requests.  proc holds the file on disk and the uploads whose add to
\* IPFS has returned and whose update of the virtual FS is still to run; done
\* are the uploads answered with success and no warning, conc tells that one
\* of them was answered while another request was waiting for its update.
VfsDisks ==
    {NoFile, File(Truncated), File(EmptyObject), File(Stringify(createVirtualFs)),
     File(Stringify(addFile(createVirtualFs, <<Sep, Documents>>, "QmX", 0)))}
VfsPaths == {<<Sep, Documents>>, <<Sep, Documents, Sep, Projects>>, <<Sep, "readme.txt">>}
VfsUploads == {Documents, "readme.txt"} \X {"QmX", "QmY"}
VfsInit ==
    /\ \E S \in Seeds : fs = Loaded(S)
    /\ store = {} /\ pub = NoHash /\ ret = Idle /\ nops = 0 /\ track = NoTrack
    /\ \E disk \in VfsDisks : proc = [disk |-> disk, pend |-> {}, done |-> {}, conc |-> FALSE]

VfsDone(op, args, r, err, warning) ==
    /\ ret' = [Idle EXCEPT !.op = op, !.args = args, !.err = err, !.warning = warning,
                           !.loaded = <<r.loaded>>, !.disk = <<proc.disk>>]
    /\ nops' = nops + 1
    /\ UNCHANGED <<fs, store, pub, track>>

\* scripts/manageVirtualFs.ts, run once.
VfsScript ==
    /\ Ready
    /\ LET r == manageVirtualFs(proc.disk, nops + 1)
       IN /\ proc' = [proc EXCEPT !.disk = r.disk]
          /\ VfsDone("script", <<>>, r, IF r.threw THEN "SyntaxError" ELSE "", FALSE)

\* POST /api/fs/add-folder.
VfsAddFolder ==
    /\ Ready
    /\ \E path \in VfsPaths :
          LET r == AddFolderRoute(proc.disk, path)
          IN /\ proc' = [proc EXCEPT !.disk = r.disk]
             /\ VfsDone("add-folder", <<path>>, r, IF r.threw THEN "500" ELSE "", FALSE)

\* POST /api/fs/add-file up to the answer of the IPFS node: without a file
\* the request ends with 400, with a failed add with 500.
VfsUpload ==
    /\ Ready
    /\ \/ \E u \in VfsUploads \ proc.pend :
             /\ proc' = [proc EXCEPT !.pend = @ \cup {u}]
             /\ UNCHANGED ret
       \/ \E err \in {"400", "500"} :
             /\ ret' = [Idle EXCEPT !.op = "add-file", !.err = err]
             /\ UNCHANGED proc
    /\ nops' = nops + 1
    /\ UNCHANGED <<fs, store, pub, track>>

\* POST /api/fs/add-file from the load to the response: an exception of the
\* update is answered with success and a warning.
VfsAddFile ==
    /\ ret = Idle
    /\ \E u \in proc.pend :
          LET r == AddFileRoute(proc.disk, u[1], u[2], nops)
          IN /\ proc' = [disk |-> r.disk, pend |-> proc.pend \ {u},
                          done |-> IF r.threw THEN proc.done ELSE proc.done \cup {u},
                          conc |-> proc.conc \/ (~r.threw /\ proc.pend # {u})]
             /\ ret' = [Idle EXCEPT !.op = "add-file", !.args = <<u[1], u[2]>>,
                                    !.warning = r.threw, !.loaded = <<r.loaded>>,
                                    !.disk = <<proc.disk>>]
    /\ UNCHANGED <<fs, store, pub, nops, track>>

VfsNext ==
    \/ VfsScript
    \/ VfsAddFolder
    \/ VfsUpload
    \/ VfsAddFile
    \/ Respond

SpecVfs == VfsInit /\ [][VfsNext]_vars

\* ------------------------------------------------- deferred and immediate
\* One sequence of commands run twice from the same tree: fs, store and pub
\* are the run with flush on every command, proc the run with flush on none.
\* ok: no command has failed; partial: a command has failed in a tree it had
\* changed; settled: the run without flush has ended with its flush of /;
\* clean0: the tree the runs started from had nothing left to flush.
Later == St(proc.fs, proc.store, proc.pub, NoLimit)

\* The trees the runs start from: the trees loaded at start-up, and the empty
\* tree after a makeDirectory of /a that was not flushed.
FlushStarts ==
    {St(Loaded(S), Blocks(Loaded(S)[Root].hash) \cup ExtBlocks, Loaded(S)[Root].hash,
        NoLimit) : S \in Seeds}
    \cup MkdirCmd(St(Loaded({}), Blocks(Loaded({})[Root].hash) \cup ExtBlocks,
                     Loaded({})[Root].hash, NoLimit), <<"a">>, FALSE, FALSE, <<>>)
FlushInit ==
    /\ \E s \in FlushStarts : fs = s.fs /\ store = s.store /\ pub = s.pub
    /\ ret = Idle
    /\ nops = 0
    /\ track = NoTrack
    /\ proc = [fs |-> fs, store |-> store, pub |-> pub, ok |-> TRUE,
               partial |-> FALSE, settled |-> FALSE,
               clean0 |-> DirtySub(fs, Root) = {}]

Both(r, d, rec) ==
    /\ fs' = r.fs
    /\ store' = r.store
    /\ pub' = r.pub
    /\ proc' = [proc EXCEPT !.fs = d.fs, !.store = d.store, !.pub = d.pub,
                            !.ok = @ /\ r.err = "" /\ d.err = "",
                            !.partial = @ \/ (r.err # "" /\
                                              TrueEnc(r.fs, Root) # TrueEnc(fs, Root))]
    /\ ret' = [rec EXCEPT !.err = r.err, !.flush = TRUE]
    /\ nops' = nops + 1
    /\ track' = track

FlushReady == Ready /\ ~proc.settled
FlushWriteArgs ==
    {W(0, MaxLen, TRUE, FALSE, FALSE, TRUE, <<>>),
     W(1, 1, FALSE, FALSE, FALSE, TRUE, <<>>),
     W(0, 1, TRUE, TRUE, FALSE, TRUE, <<>>),
     W(0, 1, FALSE, TRUE, TRUE, TRUE, <<>>)}

BothWrite ==
    /\ FlushReady
    /\ \E path \in Paths, a \in FlushWriteArgs :
       \E r \in WriteCmd(Now(NoLimit), path, a.off, WriteData(a.off, a.n), a.create,
                         a.parents, a.trunc, TRUE, a.count, <<>>),
          d \in WriteCmd(Later, path, a.off, WriteData(a.off, a.n), a.create,
                         a.parents, a.trunc, FALSE, a.count, <<>>) :
          Both(r, d, [Idle EXCEPT !.op = "write", !.p = path, !.off = a.off,
                                  !.parents = a.parents])

BothMove ==
    /\ FlushReady
    /\ \E src \in Paths, dst \in Paths :
       /\ MvErr(fs, src, dst) # "" \/ Fits(fs, src, dst)
       /\ \E r \in MvCmd(Now(NoLimit), src, dst, TRUE),
             d \in MvCmd(Later, src, dst, FALSE) :
             Both(r, d, [Idle EXCEPT !.op = "mv", !.p = src, !.q = dst])

FlushCpSrc == {Mfs(p) : p \in Paths \ {Root}} \cup {Ipfs("dir")}
BothCopy ==
    /\ FlushReady
    /\ \E src \in FlushCpSrc, dst \in Paths \ {Root}, force \in BOOLEAN, parents \in BOOLEAN :
       /\ CpFits(fs, src, dst)
       /\ \E r \in CpCmd(Now(NoLimit), src, dst, force, parents, TRUE, <<>>),
             d \in CpCmd(Later, src, dst, force, parents, FALSE, <<>>) :
             Both(r, d, [Idle EXCEPT !.op = "cp", !.p = src.p, !.x = src.x, !.q = dst,
                                     !.force = force, !.parents = parents])

BothMakeDirectory ==
    /\ FlushReady
    /\ \E path \in Paths, dashp \in BOOLEAN :
       \E r \in MkdirCmd(Now(NoLimit), path, dashp, TRUE, <<>>),
          d \in MkdirCmd(Later, path, dashp, FALSE, <<>>) :
          Both(r, d, [Idle EXCEPT !.op = "mkdir", !.p = path, !.parents = dashp])

\* The flush of / that ends the run without flush.
Settle ==
    /\ ret = Idle /\ ~proc.settled
    /\ \E d \in FlushCmd(Later, Root) :
          /\ proc' = [proc EXCEPT !.fs = d.fs, !.store = d.store, !.pub = d.pub,
                                  !.settled = TRUE]
          /\ ret' = [Idle EXCEPT !.op = "flush", !.err = d.err, !.out = d.pub]
    /\ UNCHANGED <<fs, store, pub, nops, track>>

FlushNext ==
    \/ BothWrite
    \/ BothMove
    \/ BothCopy
    \/ BothMakeDirectory
    \/ Settle
    \/ Respond

SpecFlush == FlushInit /\ [][FlushNext]_vars

\* ------------------------------------------------------------- checkPath
\* The strings checkPath is called with: every sequence of up to PathLen
\* separators and components, two components never side by side.
PathLen == MaxLen + 3
Tokens == {Sep, "a", ".", ".."}
RawPaths ==
    {s \in UNION {[1..n -> Tokens] : n \in 0..PathLen} :
        \A i \in 1..(Len(s) - 1) : s[i] = Sep \/ s[i + 1] = Sep}

CheckInit ==
    /\ fs = Loaded({})
    /\ store = Blocks(fs[Root].hash)
    /\ pub = fs[Root].hash
    /\ ret = Idle
    /\ nops = 0
    /\ track = NoTrack
    /\ \E raw \in RawPaths : proc = [raw |-> raw]

CheckPathCall ==
    /\ ret = Idle
    /\ ret' = [Idle EXCEPT !.op = "checkPath", !.args = <<proc.raw>>,
                           !.err = CheckPath(proc.raw).err,
                           !.out = CheckPath(proc.raw).path]
    /\ UNCHANGED <<fs, store, pub, nops, track, proc>>

CheckNext ==
    \/ CheckPathCall
    \/ Respond

SpecCheck == CheckInit /\ [][CheckNext]_vars

\* ------------------------------------------------------ concurrent copy
\* copy(src, dst) with the force option, run step by step while other callers
\* read and list dst.  old: the entry dst held at the start (NoHash when it
\* held none or a directory); new: the node the copy has got from src, node:
\* the tree it came from and its place there.
CopyInit ==
    /\ \E S \in Seeds : fs = Loaded(S)
    /\ store = Blocks(fs[Root].hash) \cup ExtBlocks
    /\ pub = fs[Root].hash
    /\ ret = Idle
    /\ nops = 0
    /\ track = NoTrack
    /\ \E src \in CpSrc, dst \in Paths \ {Root}, flush \in BOOLEAN :
          /\ CpFits(fs, src, dst)
          /\ proc = [mode |-> "copy", from |-> src, dst |-> dst, cflush |-> flush,
                     cpc |-> "start", new |-> NoHash, node |-> <<>>,
                     old |-> IF IsFile(fs, dst) /\ LookupErr(fs, dst) = ""
                             THEN TrueEnc(fs, dst) ELSE NoHash]

\* filesCpCmd.Run up to the check of the source: getNodeFromPath and the
\* test for a raw block or a UnixFS node.
CopyGet ==
    /\ proc.mode = "copy" /\ proc.cpc = "start"
    /\ LET n == GetNodeFromPath(Now(NoLimit), proc.from)
           ok == n.st.err = "" /\ CpValid(n)
       IN ConcDone([n.st EXCEPT !.gets = {}],
                   [proc EXCEPT !.cpc = IF ok THEN "got" ELSE "failed",
                                !.new = IF ok THEN n.h ELSE NoHash,
                                !.node = IF ok THEN <<n.fs, n.p>> ELSE <<>>])

\* A faulty copy: the entry at dst is not unlinked.
CopyUnlinkSkipped ==
    /\ proc.mode = "copy" /\ proc.cpc = "got"
    /\ ConcDone(Now(NoLimit), [proc EXCEPT !.cpc = "unlinked"])

\* filesCpCmd.Run with force: unlinkNodeIfExists(nd, dst).
CopyUnlink ==
    /\ proc.mode = "copy" /\ proc.cpc = "got"
    /\ LET r == UnlinkNodeIfExists(Now(NoLimit), proc.dst)
       IN ConcDone(r, [proc EXCEPT !.cpc = IF r.err # "" THEN "failed" ELSE "unlinked"])

\* mfs.PutNode(nd.FilesRoot, dst, node)
CopyPut ==
    /\ proc.mode = "copy" /\ proc.cpc = "unlinked"
    /\ LET r == PutNode(Now(NoLimit), proc.node[1], proc.node[2], proc.dst)
       IN ConcDone(r, [proc EXCEPT !.cpc = IF r.err # "" THEN "failed"
                                           ELSE IF proc.cflush THEN "put" ELSE "done"])

\* The flush of the new entry and of its parent.
CopyFlush ==
    /\ proc.mode = "copy" /\ proc.cpc = "put"
    /\ \E r \in CpFlush(Now(NoLimit), proc.dst) :
          ConcDone([r EXCEPT !.gets = {}], [proc EXCEPT !.cpc = "done"])

\* Another caller reads dst while the copy runs; x: the step the copy was at.
CopyRead ==
    /\ LET r == ReadCmd(fs, proc.dst, 0, <<>>)
       IN ret' = [Idle EXCEPT !.op = "read", !.p = proc.dst, !.x = proc.cpc,
                              !.err = r.err, !.out = r.out]
    /\ UNCHANGED <<fs, store, pub, nops, track, proc>>

\* Another caller lists dst with the long option while the copy runs.
CopyList ==
    /\ LET r == LsCmd(fs, proc.dst, TRUE)
       IN ret' = [Idle EXCEPT !.op = "ls", !.p = proc.dst, !.x = proc.cpc,
                              !.long = TRUE, !.err = r.err, !.out = r.out]
    /\ UNCHANGED <<fs, store, pub, nops, track, proc>>

CopyNext ==
    \/ CopyGet
    \/ CopyUnlink
    \/ CopyPut
    \/ CopyFlush
    \/ CopyRead
    \/ CopyList

SpecCopy == CopyInit /\ [][CopyNext]_vars

\* ------------------------------------------------------------------ claims
Clean(f) == \A p \in Paths : ~f[p].dirty
Disjoint(o1, n1, o2, n2) == o1 + n1 <= o2 \/ o2 + n2 <= o1
FileEnc(c, v) == [t |-> "file", d |-> c, v |-> v, l |-> {}, m |-> <<0, 0>>]
LastWrite == track.k \in {"write", "write2"}

\* C1: a read of len(data) bytes at offset 0 that follows
\* write(path, 0, data, create=true) returns exactly data, with or without a
\* flush in between.
C1_Case ==
    /\ ret.op = "read" /\ ret.off = 0 /\ ret.cnt = <<Len(track.d)>>
    /\ LastWrite /\ track.p = ret.p /\ track.create /\ track.off = 0
    /\ track.cnt = <<>>
C1_RoundTrip == C1_Case => ret.err = "" /\ ret.out = track.d
C1_Witness ==
    C1_Case /\ track.flushed /\ ~track.flush /\ ret.out = track.d /\ Len(track.d) = MaxLen

\* C2: a successful flush leaves the subtree of its path clean and returns
\* the cached hash of the path; a flush of a path whose subtree is clean
\* succeeds, returns that same cached hash and changes no node, not the
\* published root hash and not the Block Store.
C2_Step ==
    /\ (ret'.op = "flush" /\ ret'.err = "") =>
           DirtySub(fs', ret'.p) = {} /\ ret'.out = fs'[ret'.p].hash
    /\ (ret'.op = "flush" /\ LookupErr(fs, ret'.p) = "" /\ DirtySub(fs, ret'.p) = {}) =>
           /\ ret'.err = "" /\ ret'.out = fs[ret'.p].hash
           /\ fs' = fs /\ store' = store /\ pub' = pub
C2_FlushIdempotent == [][C2_Step]_vars
C2_Witness ==
    /\ ret.op = "flush" /\ ret.err = "" /\ ret.n = 0 /\ ret.out = fs[ret.p].hash
    /\ LastWrite /\ track.flush /\ track.p = ret.p /\ ~Clean(fs)

\* C3: after two writes to disjoint byte ranges of a file, the hash the
\* flush gives the file is the hash of the content the two writes produce
\* when applied in the other order.
C3_Case ==
    /\ track.k = "write2" /\ track.d # <<>> /\ track.d1 # <<>>
    /\ Disjoint(track.off1, Len(track.d1), track.off, Len(track.d))
    /\ IsFile(fs, track.p) /\ ~fs[track.p].dirty
C4_Case == ret.op = "flush" /\ ret.p = Root /\ ret.err = ""
C4_FlushRoot ==
    C4_Case => /\ Clean(fs)
               /\ pub = TrueEnc(fs, Root)
               /\ ret.out = pub
               /\ Blocks(pub) \subseteq store
C4_Witness == C4_Case /\ ret.n >= 3 /\ nops = MaxOps

\* The hash a published root links at a path, NoHash where it links none.
RECURSIVE At(_, _)
At(h, p) ==
    IF p = <<>> THEN h
    ELSE IF \E e \in h.l : e[1] = p[1]
         THEN At((CHOOSE e \in h.l : e[1] = p[1])[2], Tail(p))
         ELSE NoHash

Max(a, b) == IF a > b THEN a ELSE b
Min(a, b) == IF a < b THEN a ELSE b

\* C5 as stated: after write, copy, move, makeDirectory or setHashPreference
\* returns success with flush=true, the changed entry, its parent and every
\* ancestor up to the root are clean and the published root reflects the
\* change.
C5_Case ==
    /\ ret.op \in {"write", "cp", "mv", "mkdir", "chcid"}
    /\ ret.flush /\ ret.err = "" /\ ret.chg
C5_Target == IF ret.op \in {"cp", "mv"} THEN ret.q ELSE ret.p
C5_Reflected ==
    /\ At(pub, C5_Target) = TrueEnc(fs, C5_Target)
    /\ ret.op = "mv" => At(pub, ret.p) = NoHash
C5_AllClean ==
    C5_Case => (\A q \in Prefixes(C5_Target) : ~fs[q].dirty) /\ C5_Reflected

\* C5 as it holds: the changed entry is clean and the published root reflects
\* the change; the parent and each ancestor is clean unless a node below it,
\* off the path to the entry, is still dirty from a flush=false operation.
C5_PathClean ==
    C5_Case =>
        /\ ~fs[C5_Target].dirty
        /\ C5_Reflected
        /\ \A q \in Ancestors(C5_Target) :
              fs[q].dirty => \E c \in Sub(fs, q) : fs[c].dirty /\ ~IsPrefix(c, C5_Target)
C5_Witness ==
    C5_Case /\ ret.op = "write" /\ Len(ret.p) = 2 /\ fs[Root].dirty /\ ~fs[Dir(ret.p)].dirty

\* C6: after a write with flush=false returns success and until a flush
\* succeeds, the published root hash is what it was before the write, and a
\* read of the path returns the written bytes at the written offset.
C6_Case == LastWrite /\ ~track.flush /\ ~track.flushed
C6_Length ==
    IF track.d = <<>> THEN Len(track.c0)
    ELSE Max(Len(track.c0), track.off + Len(track.d))
C7_Inv ==
    /\ Blocks(pub) \subseteq store
    /\ pub = fs[Root].hash
    /\ Clean(fs) => pub = TrueEnc(fs, Root)
    /\ (ret.op = "flush" /\ ret.err = "" /\ ret.n > 0) =>
          At(pub, ret.p) = TrueEnc(fs, ret.p)
C7_Step == pub' # pub => ret'.op = "flush" \/ ret'.op = "rm" \/ ret'.flush
C8_Inv ==
    \A p \in Paths :
        (Exists(fs, p) /\ ~fs[p].dirty) => fs[p].hash = Enc(fs, p) /\ fs[p].hash \in store
C8_Step ==
    ret'.op = "flush" =>
        \A p \in Paths :
            \/ fs'[p] = fs[p]
            \/ fs'[p].hash = Enc(fs', p) /\ fs'[p].hash \in store'
C8_CleanIsCurrent == []C8_Inv /\ [][C8_Step]_vars
C8_Witness ==
    /\ ret.op = "flush" /\ ret.err = "Store" /\ ret.n >= 2
    /\ Cardinality(DirtySub(fs, ret.p)) = ret.n - 1

\* C9: after move(a, b) and move(b, a) the tree is the tree before the two
\* moves, and once it is flushed the root hash and the published root hash
\* are the hash of that tree.
C9_Case == track.k = "mv2"
C9_MoveBack ==
    C9_Case => /\ TrueEnc(fs, Root) = track.enc0
               /\ Clean(fs) => pub = track.enc0 /\ fs[Root].hash = track.enc0
C9_Witness ==
    /\ C9_Case /\ Clean(fs) /\ track.flushed /\ ~track.flush /\ pub = track.pub0
    /\ IsDir(fs, track.p) /\ Kids(fs, track.p) # {}

\* C10 as stated: move(src, dst) with dst src itself or below src fails with
\* CycleError.
C10_Case == ret.op = "mv" /\ IsPrefix(ret.p, ret.q)
C10_AlwaysCycle == C10_Case => ret.err = "Cycle"

\* C10 as it holds: such a move fails and changes nothing, with CycleError
\* when src is not the root and with RootOperationError when it is.
C10_Step ==
    (ret'.op = "mv" /\ IsPrefix(ret'.p, ret'.q)) =>
        /\ ret'.err = IF ret'.p = Root THEN "RootOperation" ELSE "Cycle"
        /\ fs' = fs /\ store' = store /\ pub' = pub
C10_CycleRejected == [][C10_Step]_vars
C10_Witness ==
    /\ C10_Case /\ ret.err = "Cycle" /\ ret.q # ret.p /\ ret.flush
    /\ IsDir(fs, ret.p) /\ Kids(fs, ret.p) # {} /\ ~Clean(fs)

\* C11: the root can never be removed or moved: remove of an accepted path
\* that denotes the root ("/", "//", "/a/../"), for every combination of
\* recursive and force, and move with the root as source, fail with
\* RootOperationError and leave the tree unchanged.
C11_Root(a) == CheckPath(a).err = "" /\ Comps(CheckPath(a).path) = Root
C11_Step ==
    /\ ret'.op = "rm" =>
          /\ \A i \in 1..Len(ret'.args) :
                C11_Root(ret'.args[i]) => ret'.errs[i] = "RootOperation"
          /\ (\A i \in 1..Len(ret'.args) : C11_Root(ret'.args[i])) =>
                fs' = fs /\ pub' = pub
    /\ (ret'.op = "mv" /\ ret'.p = Root) =>
          ret'.err = "RootOperation" /\ fs' = fs /\ pub' = pub
C11_RootProtected == [][C11_Step]_vars

\* The path a remove argument denotes, and whether checkPath accepts it.
Accepted(a) == CheckPath(a).err = ""
Denoted(a) == Comps(CheckPath(a).path)

\* C12: remove of a path whose final entry or whose parent directory does
\* not exist fails with NotFoundError when force is false and succeeds
\* silently when force is true; in both cases the tree is unchanged.
C12_Missing(f, a) == Accepted(a) /\ LookupErr(f, Denoted(a)) = "NotFound"
C12_Step ==
    (ret'.op = "rm" /\ Len(ret'.args) = 1 /\ C12_Missing(fs, ret'.args[1])) =>
        /\ ret'.errs = <<IF ret'.force THEN "" ELSE "NotFound">>
        /\ ret'.err = IF ret'.force THEN "" ELSE "Combined"
        /\ fs' = fs /\ store' = store /\ pub' = pub
C12_MissingRemove == [][C12_Step]_vars
C12_Witness ==
    /\ ret.op = "rm" /\ Len(ret.args) = 1 /\ C12_Missing(fs, ret.args[1])
    /\ ret.force /\ ret.err = "" /\ Len(Denoted(ret.args[1])) = 2
    /\ ~Exists(fs, Dir(Denoted(ret.args[1]))) /\ Sub(fs, Root) # {Root}

\* C13: remove over a list of paths processes every path: each path that
\* can be removed is removed whatever failures occur at other positions of
\* the list, and the command reports a combined failure exactly when at
\* least one path failed.
C13_Removable(f, a, force, dashr) ==
    /\ Accepted(a) /\ Denoted(a) # Root /\ LookupErr(f, Denoted(a)) = ""
    /\ (IsFile(f, Denoted(a)) \/ force \/ dashr)
C13_Step ==
    ret'.op = "rm" =>
       LET n == Len(ret'.args)
           gone == {i \in 1..n : C13_Removable(fs, ret'.args[i], ret'.force, ret'.dashr)}
       IN /\ Len(ret'.errs) = n
          /\ ret'.err = IF \E i \in 1..n : ret'.errs[i] # "" THEN "Combined" ELSE ""
          /\ \A i \in gone : ~Exists(fs', Denoted(ret'.args[i]))
          /\ \A i \in 1..n : (ret'.errs[i] = "" /\ ~ret'.force) =>
                                ~Exists(fs', Denoted(ret'.args[i]))
          /\ \A q \in Paths :
                (Exists(fs, q) /\ \A i \in gone : ~IsPrefix(Denoted(ret'.args[i]), q))
                    => Exists(fs', q)
C13_EveryPath == [][C13_Step]_vars
C13_Witness ==
    /\ ret.op = "rm" /\ Len(ret.args) = 2 /\ ~ret.force /\ ret.err = "Combined"
    /\ ret.errs[1] = "IsADirectory" /\ ret.errs[2] = "" /\ ret.n = 1
    /\ IsDir(fs, Denoted(ret.args[1]))

\* C14: remove of a path that resolves to a Directory fails and leaves the
\* directory in place when neither recursive nor force is set; with
\* recursive or with force the directory entry is detached from its parent.
C14_Step ==
    (/\ ret'.op = "rm" /\ Len(ret'.args) = 1 /\ Accepted(ret'.args[1])
     /\ Denoted(ret'.args[1]) # Root /\ IsDir(fs, Denoted(ret'.args[1]))) =>
       LET d == Denoted(ret'.args[1]) IN
       IF ~ret'.force /\ ~ret'.dashr
       THEN ret'.err # "" /\ ret'.errs # <<"">> /\ fs' = fs /\ pub' = pub
       ELSE /\ ret'.err = ""
            /\ \A q \in Paths : Exists(fs', q) <=> (Exists(fs, q) /\ ~IsPrefix(d, q))
            /\ At(pub', d) = NoHash
C14_DirectoryRemove == [][C14_Step]_vars
C14_Witness ==
    /\ ret.op = "rm" /\ Len(ret.args) = 1 /\ ret.dashr /\ ~ret.force
    /\ ret.err = "" /\ ret.n >= 2 /\ Sub(fs, Root) # {Root}

\* The hash of the source of a copy, and whether the source is a valid one.
SrcHash(f, r) == IF r.x # "" THEN ExtHash(r.x) ELSE TrueEnc(f, r.p)
SrcValid(f, r) == IF r.x # "" THEN r.x \in {"raw", "dir"} ELSE LookupErr(f, r.p) = ""

\* C15: copy(src, dst) asks the Block Store only for the root object of src
\* and never for a descendant block of src, with or without flush.
C15_Step ==
    ret'.op = "cp" =>
        /\ ret'.gets \subseteq {SrcHash(fs, ret')}
        /\ ret'.gets \cap (Blocks(SrcHash(fs, ret')) \ {SrcHash(fs, ret')}) = {}
C15_LazyCopy == [][C15_Step]_vars
C15_Witness ==
    /\ ret.op = "cp" /\ ret.x = "dir" /\ ret.flush /\ ret.err = ""
    /\ ret.gets = {ExtHash("dir")} /\ Len(ret.q) = 1
    /\ IsFile(fs, ret.q \o <<"a">>) /\ TrueEnc(fs, ret.q) = ExtHash("dir")

\* C16: copy of a source that is neither a raw block nor a well-formed
\* structured node fails with InvalidContentError and leaves the tree
\* unchanged: no entry at dst, no dst unlinked, no parent directory made.
C16_Step ==
    (ret'.op = "cp" /\ ret'.x \in {"cbor", "junk"}) =>
        ret'.err = "InvalidContent" /\ fs' = fs /\ store' = store /\ pub' = pub
C16_InvalidContent == [][C16_Step]_vars
C16_Witness ==
    /\ ret.op = "cp" /\ ret.x = "junk" /\ ret.err = "InvalidContent"
    /\ ret.force /\ ret.parents /\ Len(ret.q) = 2 /\ ~Exists(fs, Dir(ret.q))
    /\ Sub(fs, Root) # {Root}

\* C17 as stated: copy with overwrite onto an existing dst of any kind
\* unlinks it and succeeds, and dst then resolves to the hash of src.
C17_Case == ret'.op = "cp" /\ ret'.force /\ SrcValid(fs, ret') /\ Exists(fs, ret'.q)
C17_Step ==
    C17_Case =>
        IF IsFile(fs, ret'.q)
        THEN /\ ret'.err = ""
             /\ TrueEnc(fs', ret'.q) = SrcHash(fs, ret')
             /\ fs'[ret'.q].hash = SrcHash(fs, ret')
        ELSE ret'.err = "NotAFile" /\ fs' = fs /\ store' = store /\ pub' = pub
C18_Step ==
    (ret'.op = "cp" /\ ~ret'.force /\ SrcValid(fs, ret') /\ Exists(fs, ret'.q)) =>
        ret'.err = "AlreadyExists" /\ fs' = fs /\ pub' = pub
RECURSIVE Committed(_, _, _)
Committed(c, order, w) ==
    IF order = <<>> THEN c
    ELSE Committed(WriteAt(c, w[order[1]].off, w[order[1]].d), Tail(order), w)
Overlap(a, b) == a.off < b.off + Len(b.d) /\ b.off < a.off + Len(a.d)

\* C19: two concurrent writes to overlapping byte ranges of one file that
\* commit in a given order leave, in memory and once flushed, the content of
\* applying the two writes one after the other in that order; no
\* interleaving of the two commands yields any other content.
C19_Case == proc.mode = "write"
C20_Case ==
    /\ proc.mode = "move" /\ proc.mpc # "failed"
    /\ proc.mpc = "start" => MvErr(fs, proc.src, proc.dst) = ""
C20_At == IF proc.mpc = "start" THEN proc.src ELSE proc.dst
C20_Gone == IF proc.mpc = "start" THEN proc.dst ELSE proc.src
C21_Opposite ==
    /\ proc.mode = "locks"
    /\ Dir(proc.m[1].src) = Dir(proc.m[2].dst)
    /\ Dir(proc.m[1].dst) = Dir(proc.m[2].src)
    /\ Dir(proc.m[1].src) # Dir(proc.m[1].dst)
C21_BothTerminate == C21_Opposite => <>(Finished(proc.m[1]) /\ Finished(proc.m[2]))
C21_Witness ==
    /\ C21_Opposite /\ proc.mixed
    /\ proc.m[1].pc = "done" /\ proc.m[2].pc = "done"
    /\ \A d \in LockDirs : proc.held[d] = 0

\* C22: a read of an existing file fails exactly when the offset is negative,
\* the offset is past the end of the content or the count is negative;
\* otherwise it returns the bytes from the offset up to the smaller of
\* offset + count and the length, so an offset equal to the length succeeds
\* with zero bytes.
C22_Case == ret.op = "read" /\ IsFile(fs, ret.p)
C22_Bad ==
    \/ ret.off < 0
    \/ ret.off > Len(fs[ret.p].data)
    \/ ret.cnt # <<>> /\ ret.cnt[1] < 0
C22_Bytes ==
    LET c == fs[ret.p].data
        hi == IF ret.cnt = <<>> THEN Len(c) ELSE Min(ret.off + ret.cnt[1], Len(c))
    IN [i \in 1..(hi - ret.off) |-> c[ret.off + i]]
C22_ReadRange ==
    C22_Case => /\ (ret.err # "") = C22_Bad
                /\ ret.err = "" => ret.out = C22_Bytes
C22_Witness ==
    /\ C22_Case /\ ret.err = "" /\ ret.out = <<>>
    /\ ret.off = Len(fs[ret.p].data) /\ ret.off > 0

\* The target of the stat in ret, and the blocks the walk could get.
StatHash == IF ret.x # "" THEN ExtHash(ret.x) ELSE TrueEnc(fs, ret.p)
RECURSIVE PresentSize(_, _)
PresentSize(h, L) ==
    LET RECURSIVE Sum(_)
        Sum(S) == IF S = {} THEN 0
                  ELSE LET e == CHOOSE e \in S : TRUE
                       IN PresentSize(e[2], L) + Sum(S \ {e})
    IN RawLen(h) + Sum({e \in h.l : e[2] \in L})

\* C24: stat with withLocal reports the fully-local flag as true exactly when
\* every block reachable from the node is in the local store; a block that is
\* missing clears the flag and does not end the walk: the branches after it
\* are walked and their present blocks are counted.
C24_Case == ret.op = "stat" /\ ret.withLocal /\ ret.err = ""
C24_WalkLocal ==
    C24_Case =>
        /\ ret.out.withLocal
        /\ ret.out.local = (Blocks(StatHash) \subseteq store)
        /\ ret.out.sizeLocal = PresentSize(StatHash, store)
C24_Witness ==
    /\ C24_Case /\ ~ret.out.local
    /\ LET ls == LinkSeq(StatHash)
       IN /\ Len(ls) = 2 /\ ls[1] \notin store /\ ls[2] \in store
          /\ ret.out.sizeLocal = RawLen(StatHash) + RawLen(ls[2])

\* C25 as first stated: with withLocal no step of stat fetches a block from
\* the network, neither resolving the target nor walking its DAG.
C25_NoFetch == (ret.op = "stat" /\ ret.withLocal) => ret.gets = {}

\* C25: with withLocal the walk of the DAG fetches no block from the network:
\* the only blocks stat fetches are those on the way to its target, which the
\* resolver gets (the object an /ipfs/ path names, the components of an MFS
\* path), and the local store gains no other block.
C25_OnPath ==
    IF ret.x # "" THEN {ExtHash(ret.x)}
    ELSE {TrueEnc(fs, q) : q \in {q \in Paths : IsPrefix(q, ret.p) /\ Exists(fs, q)}}
C25_WalkOffline ==
    (ret.op = "stat" /\ ret.withLocal) =>
        /\ ret.gets \subseteq C25_OnPath
        /\ store = ret.store \cup ret.gets
C25_Witness ==
    /\ ret.op = "stat" /\ ret.withLocal /\ ret.err = "" /\ ret.x = "dir"
    /\ ret.gets = {ExtHash("dir")} /\ ~ret.out.local
    /\ ret.out.sizeLocal = RawLen(ExtHash("dir"))

\* C23: every command that takes a path rejects an empty path and a path
\* without a leading separator with a path error, before it looks anything up
\* and without a change to the tree.
C23_Bad(raw) == raw = <<>> \/ raw[1] # Sep
C23_Step ==
    (ret'.op # "idle" /\ \E i \in 1..Len(ret'.args) : C23_Bad(ret'.args[i])) =>
        /\ ret'.err = "Path" \/ (ret'.op = "rm" /\ ret'.errs = <<"Path">>)
        /\ fs' = fs /\ store' = store /\ pub' = pub
C23_PathChecked == [][C23_Step]_vars

\* C26 as first stated: after makeDirectory(d, makeParents) and
\* write(d/f, 0, data, create, flush), stat(d/f) returns type file and a
\* direct size equal to the length of data, for any d and any data.
C26_Case ==
    /\ ret.op = "stat" /\ track.k = "mkwrite"
    /\ CheckPath(ret.args[1]).err = "" /\ OfPath(ret.args[1]) = track.p
C26_SizeOfData ==
    C26_Case => ret.err = "" /\ ret.out.type = "file" /\ ret.out.size = Len(track.d)

\* C26: after makeDirectory(d, makeParents) and write(d/f, 0, data, create,
\* flush), stat(d/f) returns type file and as direct size the larger of the
\* length of data and the length of the content d/f held before the write:
\* the length of data when d/f did not exist.
C26_StatAfterWrite ==
    C26_Case => /\ ret.err = "" /\ ret.out.type = "file"
                /\ ret.out.size = Max(Len(track.d), Len(track.c0))
C26_Witness ==
    /\ C26_Case /\ ret.err = "" /\ ret.out.type = "file" /\ Len(track.p) = 2
    /\ track.c0 = <<>> /\ ret.out.size = MaxLen /\ Len(track.d) = MaxLen

\* The directory a list in ret was asked of, and what its entries should name.
C27_Path == OfPath(ret.args[1])
C27_Case == ret.op = "ls" /\ ret.err = "" /\ IsDir(fs, C27_Path)
C27_Names ==
    /\ Len(ret.out) = Cardinality(Kids(fs, C27_Path))
    /\ {ret.out[i].name : i \in 1..Len(ret.out)} = {Base(c) : c \in Kids(fs, C27_Path)}
C27_Typed ==
    \A i \in 1..Len(ret.out) :
        LET c == Append(C27_Path, ret.out[i].name)
        IN ret.out[i].type = IF IsDir(fs, c) THEN "directory" ELSE "file"

\* C27 as first stated: list on a directory returns exactly one entry per
\* direct child, each with the name and the type of the child, also when the
\* long option is not set.
C27_AlwaysTyped == C27_Case => C27_Names /\ C27_Typed

\* C27: list on a directory returns exactly one entry per direct child (no
\* grandchild, no child left out) with the name of the child; the entry
\* carries the type of the child when the long option is set, and the name
\* alone when it is not.
C27_ListChildren ==
    C27_Case => /\ C27_Names
                /\ ret.long => C27_Typed
                /\ ~ret.long => \A i \in 1..Len(ret.out) :
                                    ret.out[i] = [NoEntry EXCEPT !.name = ret.out[i].name]
C27_Witness ==
    /\ C27_Case /\ ~ret.long /\ Len(ret.out) = 2
    /\ \E c \in Kids(fs, C27_Path) : IsDir(fs, c) /\ Kids(fs, c) # {}

\* The path of a setHashPreference in ret', where it names no directory.
C28_Path == OfPath(ret'.args[1])
C28_Case ==
    /\ ret'.op = "chcid"
    /\ ~(LookupErr(fs, C28_Path) = "" /\ IsDir(fs, C28_Path))
C28_Same == fs' = fs /\ store' = store /\ pub' = pub

\* C28 as first stated: setHashPreference succeeds only on a path that
\* resolves to a directory; on a file or a missing path it fails and changes
\* nothing, whatever version and hash function are given or omitted.
C28_AlwaysStep == C28_Case => ret'.err # "" /\ C28_Same
C28_DirectoriesOnly == [][C28_AlwaysStep]_vars

\* C28: with a version or a hash function given, setHashPreference succeeds
\* only on a path that resolves to a directory: on a file or a missing path
\* it fails and changes nothing.  With both omitted it sets nothing and does
\* not look at the node: without flush it succeeds on any path and changes
\* nothing; with flush it does what the flush of the path does, which fails
\* on a missing path and leaves the content of the tree as it was.
C28_Step ==
    /\ (C28_Case /\ ret'.cnt # <<>>) => ret'.err # "" /\ C28_Same
    /\ (C28_Case /\ ret'.cnt = <<>> /\ ~ret'.flush) => ret'.err = "" /\ C28_Same
    /\ (C28_Case /\ ret'.cnt = <<>> /\ ret'.flush) =>
           /\ (ret'.err = "") = (LookupErr(fs, C28_Path) = "")
           /\ TrueEnc(fs', Root) = TrueEnc(fs, Root)
C28_WithPreference == [][C28_Step]_vars
C28_Witness ==
    /\ ret.op = "chcid" /\ ret.cnt # <<>> /\ IsFile(fs, OfPath(ret.args[1]))
    /\ ret.err = "NotADirectory" /\ fs[OfPath(ret.args[1])].ver # ret.cnt[1]

\* What a load in ret found on disk and what it gave.
C29_Case ==
    /\ ret.loaded # <<>>
    /\ ~ret.disk[1].exists \/ ~IsJson(ret.disk[1].text)

\* C29: loadVirtualFsFromDisk returns a usable root folder both when the
\* saved file is missing and when its content is invalid, and in both cases a
\* new empty root is created and saved to disk.
C29_LoadRecovers ==
    C29_Case => /\ ~ret.loaded[1].threw
                /\ ret.loaded[1].vfs = createVirtualFs
                /\ ret.loaded[1].disk = saveVirtualFsToDisk(createVirtualFs)

\* C30: deferred flush is equivalent to immediate flush: any sequence of
\* writes, copies, moves and makeDirectory calls run without flush and
\* followed by one flush of / publishes the same root hash as the same
\* sequence run with flush on every command.  The sequence starts from a tree
\* with nothing left to flush: what is unflushed at the start belongs to
\* calls made before it.
C30_Equivalent == (proc.settled /\ proc.clean0) => proc.pub = pub

\* Where the equivalence does hold: for every sequence of writes, copies,
\* moves and makeDirectory calls that starts from a tree with nothing left to
\* flush and in which no call fails after it has changed the tree.
C30_EquivalentUnlessPartial ==
    (proc.settled /\ proc.clean0 /\ ~proc.partial) => proc.pub = pub
C30_Witness ==
    /\ proc.settled /\ proc.clean0 /\ ~proc.ok /\ ~proc.partial /\ nops = MaxOps
    /\ pub = proc.pub /\ pub # TrueEnc(Loaded({}), Root)
    /\ \E p \in Paths : IsFile(fs, p) /\ fs[p].data # <<>> /\ Len(p) = 2

\* The directories a flush in ret' has encoded and persisted, and their
\* children that were dirty when the flush began.
C31_Persisted(q) ==
    /\ IsDir(fs, q) /\ IsPrefix(ret'.p, q)
    /\ fs[q].dirty /\ ~fs'[q].dirty
C31_DirtyKids(q) == {c \in Kids(fs, q) : fs[c].dirty}

\* C31: during a flush of a directory, the directory is encoded and persisted
\* only after every one of its dirty children has finished flushing: the
\* encoding persisted for a directory links, for each child that was dirty
\* when the flush began, to the hash of the fresh encoding of that child,
\* which is persisted itself, and never to the hash the child had before.
C31_Step ==
    ret'.op = "flush" =>
        \A q \in Paths : C31_Persisted(q) =>
            /\ fs'[q].hash \in store'
            /\ \A c \in C31_DirtyKids(q) :
                  /\ ~fs'[c].dirty
                  /\ fs'[c].hash = TrueEnc(fs', c) /\ fs'[c].hash \in store'
                  /\ <<Base(c), fs'[c].hash>> \in fs'[q].hash.l
C31_ChildrenFirst == [][C31_Step]_vars
C31_Witness ==
    /\ ret.op = "flush" /\ ret.n >= 2 /\ IsDir(fs, ret.p) /\ ~fs[ret.p].dirty
    /\ LastWrite /\ ~track.flush /\ track.flushed /\ Dir(track.p) = ret.p
    /\ fs[track.p].data # track.c0
    /\ <<Base(track.p), fs[track.p].hash>> \in fs[ret.p].hash.l

\* A path checkPath has accepted, and what is asked of the path it returned.
C32_Case == ret.op = "checkPath" /\ ret.err = ""
C32_NoDots == \A i \in 1..Len(ret.out) : ret.out[i] \notin {".", ".."}
C32_NoEmpty ==
    /\ ret.out # <<>> /\ ret.out[1] = Sep
    /\ \A i \in 1..(Len(ret.out) - 1) : ~(ret.out[i] = Sep /\ ret.out[i + 1] = Sep)
C32_SameNode == OfPath(ret.out) = OfPath(ret.args[1])

\* C32: for every path checkPath accepts, the path it returns contains no "."
\* or ".." component and no redundant separator (no empty component other
\* than one optional trailing separator on a path that is not the root), and
\* it denotes the same node as the input path.
C32_NormalForm == C32_Case => C32_NoDots /\ C32_NoEmpty /\ C32_SameNode

\* The block a path of links leads to from the block h, every block on the
\* way being in L: <<>> when a link is not there or its block is missing.
RECURSIVE Follow(_, _, _)
Follow(h, links, L) ==
    IF links = <<>> THEN <<h>>
    ELSE LET S == {e \in h.l : e[1] = links[1]}
         IN IF S = {} THEN <<>>
            ELSE LET c == (CHOOSE e \in S : TRUE)[2]
                 IN IF c \notin L THEN <<>> ELSE Follow(c, Tail(links), L)
C33_Found(h, L) == {links \in Paths \ {Root} : Follow(h, links, L) # <<>>}
RECURSIVE C33_Bytes(_, _, _)
C33_Bytes(S, h, L) ==
    IF S = {} THEN 0
    ELSE LET links == CHOOSE links \in S : TRUE
         IN RawLen(Follow(h, links, L)[1]) + C33_Bytes(S \ {links}, h, L)

\* C33: sizeLocal of a stat with withLocal is the byte length of the block of
\* the node plus, for every path of links from the node to a block of the
\* local store, the byte length of that block: a block that k paths lead to is
\* counted k times, and what lies below a missing block is not counted.
C33_SizeLocal ==
    (ret.op = "stat" /\ ret.withLocal /\ ret.err = "") =>
        ret.out.sizeLocal =
            RawLen(StatHash) + C33_Bytes(C33_Found(StatHash, store), StatHash, store)
C33_Witness ==
    /\ ret.op = "stat" /\ ret.withLocal /\ ret.err = "" /\ ret.x = "" /\ ret.p = Root
    /\ fs[<<"a">>].hash \notin store /\ fs[<<"a", "a">>].hash \in store
    /\ C33_Found(StatHash, store) = {<<"b">>, <<"b", "a">>, <<"b", "b">>}
    /\ fs[<<"b", "a">>].hash = fs[<<"b", "b">>].hash
    /\ ret.out.sizeLocal = RawLen(StatHash) + RawLen(fs[<<"b">>].hash)
                           + 2 * RawLen(fs[<<"b", "a">>].hash)

\* A copy that replaces a file at dst, and what a read or a list of dst that
\* ran at step x of the copy has seen: the entry dst held before (Old), the
\* one the copy puts there (New), or no entry.
C34_Case == proc.mode = "copy" /\ proc.old # NoHash /\ proc.cpc # "failed"
C34_Sees(h) ==
    IF ret.op = "read" THEN \/ ret.err = "" /\ h.t = "file" /\ ret.out = h.d
                            \/ ret.err = "NotAFile" /\ h.t # "file"
    ELSE ret.err = "" /\ h.t \in {"file", "dir"} /\ Len(ret.out) >= 1
         /\ (h.t = "file" => ret.out = <<[name |-> Base(proc.dst), type |-> "file",
                                          size |-> Len(h.d), hash |-> h]>>)
C34_Old == C34_Sees(proc.old)
C34_New == proc.new # NoHash /\ C34_Sees(proc.new)

\* C34 as first stated: while copy(src, dst, overwrite=true) replaces an
\* existing file at dst, a concurrent list or read of dst observes either the
\* old entry or the new entry, never a state in which dst is absent.
C34_NeverAbsent ==
    (C34_Case /\ ret.op \in {"read", "ls"}) => C34_Old \/ C34_New

\* C34: while copy(src, dst, overwrite=true) replaces an existing file at
\* dst, a concurrent list or read of dst observes the old entry up to the
\* unlink, no entry between the unlink and the insert, and the new entry from
\* the insert on: each of the two steps is atomic, the pair is not.
C34_TwoSteps ==
    (C34_Case /\ ret.op \in {"read", "ls"}) =>
        /\ ret.x \in {"start", "got"} => C34_Old
        /\ ret.x = "unlinked" => ret.err = "NotFound" /\ ret.out = <<>>
        /\ ret.x \in {"put", "done"} => C34_New
C34_Witness ==
    /\ C34_Case /\ proc.cpc = "done" /\ ret.op = "read" /\ ret.x = "unlinked"
    /\ ret.err = "NotFound" /\ proc.new.t = "file" /\ proc.new.d # proc.old.d
    /\ TrueEnc(fs, proc.dst) = proc.new

\* A response of write that refuses the call for a negative offset, a
\* negative count or a target that is a directory.
C35_Rejected(r) ==
    /\ r.op = "write"
    /\ \/ r.err = "NotAFile"
       \/ r.err = "NegativeArgument" /\ (r.off < 0 \/ r.cnt # <<>>)
C35_Step ==
    (ret = Idle /\ C35_Rejected(ret')) => fs' = fs /\ store' = store /\ pub' = pub

\* C35: a write that is rejected for its arguments or its target leaves the
\* tree exactly as it was, for every combination of create, truncate,
\* makeParents and flush: no file is created, no parent directory is created,
\* no content is truncated and no new root hash is published.
C35_RejectedUnchanged == [][C35_Step]_vars

\* No folder of the tree has two children of one name.
RECURSIVE UniqueNames(_)
UniqueNames(node) ==
    /\ \A j, k \in 1..Len(node.children) :
          j # k => node.children[j].name # node.children[k].name
    /\ \A k \in 1..Len(node.children) : UniqueNames(node.children[k])
OnDisk == IF proc.disk.exists /\ IsJson(proc.disk.text) THEN <<Parse(proc.disk.text)>>
          ELSE <<>>

\* C36: after any sequence of addFolder and addFile calls on the virtual FS
\* tree (a repeated call, a folder added where a file of that name exists, the
\* manage script run again on a saved tree), no folder has two children with
\* the same name.
C36_UniqueNames == OnDisk # <<>> => UniqueNames(OnDisk[1])

\* getByPath(root, path)
getByPath(root, path) == findNode(path, root)

\* The add-file route has answered with success and without a warning: its
\* addFile(vfs, '/' + name, cid) has run on the loaded tree, whose root is a
\* folder, and the tree has been saved.
C37_Case ==
    /\ ret.op = "add-file" /\ ret.err = "" /\ ~ret.warning /\ ret.args # <<>>
    /\ ret.loaded[1].vfs.type = "folder"

\* C37: after addFile(root, path, cid) on a path whose parent folder exists,
\* getByPath(root, path) returns a file node whose cid is the cid passed to
\* the most recent addFile for that path, also when the path already held a
\* file.
C37_LatestCid ==
    C37_Case =>
        LET found == getByPath(OnDisk[1], <<Sep, ret.args[1]>>)
        IN found # <<>> /\ found[1].type = "file" /\ found[1].cid = ret.args[2]

\* A load of the virtual FS from the file now on disk holds a folder at path.
FolderAt(path) ==
    LET l == loadVirtualFsFromDisk(proc.disk)
        found == findNode(path, l.vfs)
    IN ~l.threw /\ found # <<>> /\ found[1].type = "folder"

\* C38: after the add-folder endpoint has responded success for a path, every
\* later load of the virtual FS from disk, the one of the refresh that follows
\* first, contains a folder at that path.
C38_FolderSaved ==
    (ret.op = "add-folder" /\ ret.err = "") => FolderAt(ret.args[1])

\* The tree on disk holds, under the root, the file of an upload.
Saved(u) ==
    \E k \in 1..Len(OnDisk[1].children) :
       LET child == OnDisk[1].children[k]
       IN child.name = u[1] /\ child.type = "file" /\ child.cid = u[2]

\* Add-file requests were handled concurrently, on a file the drive has
\* saved: a tree whose root is a folder.
C39_Case == proc.conc /\ OnDisk # <<>> /\ OnDisk[1].type = "folder"

\* C39: for two add-file requests handled concurrently, once both have
\* responded success without a warning the virtual FS saved on disk contains
\* both files: no interleaving of the two load-modify-save sequences loses an
\* update.
C39_BothSaved == C39_Case => \A u \in proc.done : Saved(u)
C39_Witness ==
    /\ C39_Case /\ ret.op = "add-file" /\ ~ret.warning
    /\ \E u, v \in proc.done : u[1] # v[1] /\ Saved(u) /\ Saved(v)

====
